---- MODULE Spec2Model ----
(***************************************************************************)
(* Model of docker-image-tracker (dit): the history store kept in          *)
(* .dit/history.json (save_snapshot, track_all.rs), the batch loops that   *)
(* append to it (track_all_images, run_ci), the layer diff (compute_diff,   *)
(* diff.rs and ci.rs), the baseline resolver (diff_images, diff.rs, and    *)
(* find_baseline_snapshot, ci.rs), the budget gate (check_budgets, ci.rs), *)
(* the batch commands as a whole (run_ci, ci.rs, and track_all_images,     *)
(* track_all.rs) and the pull-request comment (post_or_update_pr_comment,  *)
(* github.rs).                                                             *)
(***************************************************************************)
EXTENDS Integers, Sequences, FiniteSets, TLC

VARIABLES
    dirExists,   \* the directory .dit exists
    file,        \* .dit/history.json: [exists, content], content a token sequence
    prior,       \* the history the store held when the invocations began
    pc,          \* per invocation: its position in the batch loop / save_snapshot
    mode,        \* per invocation: "track_all" or "ci"
    nsaves,      \* per invocation: save_snapshot calls begun so far
    cur,         \* per invocation: the snapshot being saved (<<>> when none)
    snapshots,   \* per invocation: save_snapshot's local Vec<ImageSnapshot>
    saved,       \* per invocation: the snapshots whose save_snapshot returned Ok
    lastErr,     \* per invocation: the error of the last failed save_snapshot
    dBefore,     \* compute_diff: argument before
    dAfter,      \* compute_diff: argument after
    dResult,     \* compute_diff: the SizeDiff returned (<<>> before the call)
    dPc,         \* compute_diff: "idle", "call", or the copy that returned ("diff", "ci")
    qArgs,       \* baseline resolver: the arguments of diff_images / of one run_ci round
    qOut,        \* baseline resolver: what the call produced (<<>> before the call)
    bComparisons,\* check_budgets: argument comparisons, a Vec of (snapshot, Option<SizeDiff>)
    bConfig,     \* check_budgets: the policy fields of CiConfig
    bOut,        \* check_budgets: the value returned and the lines printed (<<>> before the call)
    rCmd,        \* batch command: "ci" (run_ci), "track_all" (track_all_images) or "none"
    rConfig,     \* batch command: CiConfig (images is the list track_all_images got from Docker)
    rPc,         \* batch command: position in run_ci / track_all_images
    rCurrent,    \* run_ci: current_snapshots
    rHistory,    \* run_ci: history, the value of load_history()
    rComparisons,\* run_ci: comparisons
    rLog,        \* batch command: per image of the loop, what was printed for it
    rOut,        \* batch command: how the process ended (<<>> while it runs)
    gComments,   \* pull request: its comments, oldest first
    gCalls,      \* pull request: the reports of the post_or_update_pr_comment calls that returned Ok
    gFailed      \* pull request: post_or_update_pr_comment calls that returned Err

storeVars == <<dirExists, file, prior, pc, mode, nsaves, cur, snapshots, saved, lastErr>>
diffVars  == <<dBefore, dAfter, dResult, dPc>>
resolveVars == <<qArgs, qOut>>
budgetVars == <<bComparisons, bConfig, bOut>>
runVars == <<rCmd, rConfig, rPc, rCurrent, rHistory, rComparisons, rLog, rOut>>
publishVars == <<gComments, gCalls, gFailed>>
vars      == <<dirExists, file, prior, pc, mode, nsaves, cur, snapshots, saved, lastErr,
               dBefore, dAfter, dResult, dPc, qArgs, qOut, bComparisons, bConfig, bOut,
               rCmd, rConfig, rPc, rCurrent, rHistory, rComparisons, rLog, rOut,
               gComments, gCalls, gFailed>>

(***************************************************************************)
(* Bounds.                                                                 *)
(***************************************************************************)
\* save_snapshot calls one batch invocation makes at most
MaxBatch == 2
\* layers of a snapshot given to compute_diff
MaxLayers == 2

(***************************************************************************)
(* Data model (models.rs).                                                 *)
(***************************************************************************)
\* Option<T>: None is <<>>, Some(x) is <<x>>
None == <<>>

Some(x) == <<x>>

LayerInfo(digest, size) ==
    [digest |-> digest, size |-> size, command |-> "RUN build", created |-> 1]

ImageSnapshot(image, tag, digest, sha, branch, total, layers) ==
    [image |-> image, tag |-> tag, digest |-> digest,
     commit_sha |-> sha, branch |-> branch,
     commit_message |-> "msg", author |-> "dev <dev@example.org>", timestamp |-> 1,
     total_size |-> total, layer_count |-> Len(layers), layers |-> layers,
     os |-> "linux", arch |-> "amd64"]

(***************************************************************************)
(* serde_json: the history file is one JSON array of snapshot objects.     *)
(* The text is modelled as a sequence of tokens <<kind, payload>>; a JSON  *)
(* value inside an object is <<"str", s>>, <<"num", n>>, <<"null", 0>> or  *)
(* <<"arr", values>>.                                                      *)
(***************************************************************************)
TokOpen  == <<"[", <<>>>>
TokClose == <<"]", <<>>>>
TokComma == <<",", <<>>>>

EncodeOption(o) == IF o = None THEN <<"null", 0>> ELSE <<"str", o[1]>>

EncodeLayer(l) ==
    <<"obj", << <<"digest", <<"str", l.digest>> >>,
                <<"size", <<"num", l.size>> >>,
                <<"command", <<"str", l.command>> >>,
                <<"created", <<"num", l.created>> >> >> >>

EncodeSnapshot(s) ==
    <<"obj", << <<"image", <<"str", s.image>> >>,
                <<"tag", EncodeOption(s.tag)>>,
                <<"digest", EncodeOption(s.digest)>>,
                <<"commit_sha", <<"str", s.commit_sha>> >>,
                <<"branch", <<"str", s.branch>> >>,
                <<"commit_message", <<"str", s.commit_message>> >>,
                <<"author", <<"str", s.author>> >>,
                <<"timestamp", <<"num", s.timestamp>> >>,
                <<"total_size", <<"num", s.total_size>> >>,
                <<"layer_count", <<"num", s.layer_count>> >>,
                <<"layers", <<"arr", [i \in 1..Len(s.layers) |-> EncodeLayer(s.layers[i])]>> >>,
                <<"os", <<"str", s.os>> >>,
                <<"arch", <<"str", s.arch>> >> >> >>

\* serde_json::to_string_pretty(&snapshots): "[" object { "," object } "]"
RECURSIVE JoinTokens(_)
JoinTokens(objs) ==
    IF objs = <<>> THEN <<>>
    ELSE IF Len(objs) = 1 THEN <<objs[1]>>
    ELSE <<objs[1], TokComma>> \o JoinTokens(Tail(objs))

ToStringPretty(snaps) ==
    <<TokOpen>> \o JoinTokens([i \in 1..Len(snaps) |-> EncodeSnapshot(snaps[i])]) \o <<TokClose>>

\* The member of an object with the given key and value kind, if it is at position i
HasMember(members, i, key, kind) ==
    /\ i <= Len(members)
    /\ members[i][1] = key
    /\ members[i][2][1] = kind

HasOptionMember(members, i, key) ==
    HasMember(members, i, key, "str") \/ HasMember(members, i, key, "null")

DecodeOption(v) == IF v[1] = "null" THEN None ELSE Some(v[2])

IsLayerObject(t) ==
    /\ t[1] = "obj"
    /\ Len(t[2]) = 4
    /\ HasMember(t[2], 1, "digest", "str")
    /\ HasMember(t[2], 2, "size", "num")
    /\ HasMember(t[2], 3, "command", "str")
    /\ HasMember(t[2], 4, "created", "num")

DecodeLayer(t) ==
    [digest |-> t[2][1][2][2], size |-> t[2][2][2][2],
     command |-> t[2][3][2][2], created |-> t[2][4][2][2]]

\* Deserialize for ImageSnapshot: every field of the schema, with its type
IsSnapshotObject(t) ==
    /\ t[1] = "obj"
    /\ Len(t[2]) = 13
    /\ HasMember(t[2], 1, "image", "str")
    /\ HasOptionMember(t[2], 2, "tag")
    /\ HasOptionMember(t[2], 3, "digest")
    /\ HasMember(t[2], 4, "commit_sha", "str")
    /\ HasMember(t[2], 5, "branch", "str")
    /\ HasMember(t[2], 6, "commit_message", "str")
    /\ HasMember(t[2], 7, "author", "str")
    /\ HasMember(t[2], 8, "timestamp", "num")
    /\ HasMember(t[2], 9, "total_size", "num")
    /\ HasMember(t[2], 10, "layer_count", "num")
    /\ HasMember(t[2], 11, "layers", "arr")
    /\ \A i \in 1..Len(t[2][11][2][2]) : IsLayerObject(t[2][11][2][2][i])
    /\ HasMember(t[2], 12, "os", "str")
    /\ HasMember(t[2], 13, "arch", "str")

DecodeSnapshot(t) ==
    [image |-> t[2][1][2][2], tag |-> DecodeOption(t[2][2][2]),
     digest |-> DecodeOption(t[2][3][2]),
     commit_sha |-> t[2][4][2][2], branch |-> t[2][5][2][2],
     commit_message |-> t[2][6][2][2], author |-> t[2][7][2][2],
     timestamp |-> t[2][8][2][2],
     total_size |-> t[2][9][2][2], layer_count |-> t[2][10][2][2],
     layers |-> [i \in 1..Len(t[2][11][2][2]) |-> DecodeLayer(t[2][11][2][2][i])],
     os |-> t[2][12][2][2], arch |-> t[2][13][2][2]]

\* The text is a JSON array of snapshot objects: "[" "]", or "[" obj { "," obj } "]"
IsHistoryJson(content) ==
    /\ Len(content) >= 2
    /\ content[1][1] = "["
    /\ content[Len(content)][1] = "]"
    /\ \/ Len(content) = 2
       \/ /\ Len(content) % 2 = 1
          /\ \A i \in 2..(Len(content) - 1) :
                IF i % 2 = 0 THEN IsSnapshotObject(content[i]) ELSE content[i][1] = ","

\* serde_json::from_str::<Vec<ImageSnapshot>>(&content)
FromStr(content) ==
    IF IsHistoryJson(content)
    THEN [ok |-> TRUE,
          value |-> [i \in 1..((Len(content) - 1) \div 2) |-> DecodeSnapshot(content[2 * i])]]
    ELSE [ok |-> FALSE, value |-> <<>>]

(***************************************************************************)
(* The history store: .dit/history.json (track_all.rs).                    *)
(***************************************************************************)
\* The invocations of dit that run against the same working directory
Procs == {"p1", "p2"}

Others(p) == Procs \ {p}

\* The snapshots the capture step hands to save_snapshot
SnapA ==
    ImageSnapshot("app", Some("latest"), Some("sha256:aa"), "abc1234", "main", 100,
                  <<LayerInfo("d1", 60), LayerInfo("d2", 40)>>)

SnapB ==
    ImageSnapshot("web", Some("v2"), None, "def5678", "feature", 130,
                  <<LayerInfo("d1", 60), LayerInfo("d3", 70)>>)

Captured == {SnapA, SnapB}

NoFile == [exists |-> FALSE, content |-> <<>>]

FileWith(content) == [exists |-> TRUE, content |-> content]

\* What the working directory can hold before the invocations: nothing, an
\* empty .dit, or a history.json written by earlier runs (Some(history))
InitialStores ==
    { [dir |-> FALSE, prior |-> None],
      [dir |-> TRUE,  prior |-> None],
      [dir |-> TRUE,  prior |-> Some(<<>>)],
      [dir |-> TRUE,  prior |-> Some(<<SnapB>>)] }

PriorHistory == IF prior = None THEN <<>> ELSE prior[1]

\* save_snapshot calls an invocation makes at most: p1 is a batch over several
\* images, p2 a concurrent invocation over one image
Limit(p) == IF p = "p1" THEN MaxBatch ELSE 1

\* Variant: a load that reports an absent file as an error
LoadHistoryAbsentIsError(f) ==
    IF f.exists THEN FromStr(f.content) ELSE [ok |-> FALSE, value |-> <<>>]

\* Loading the history: absent file is the empty Vec, present file is parsed
LoadHistory(f) ==
    IF f.exists THEN FromStr(f.content) ELSE [ok |-> TRUE, value |-> <<>>]

\* A write of data at offset 0 of the open file: it replaces the first
\* Len(data) tokens and leaves what lies behind them
Overwrite(old, data) ==
    IF Len(data) >= Len(old) THEN data
    ELSE data \o SubSeq(old, Len(data) + 1, Len(old))

StoreInit ==
    /\ \E st \in InitialStores :
          /\ dirExists = st.dir
          /\ prior = st.prior
          /\ file = IF st.prior = None THEN NoFile ELSE FileWith(ToStringPretty(st.prior[1]))
    /\ pc = [p \in Procs |-> "off"]
    /\ mode = [p \in Procs |-> "track_all"]
    /\ nsaves = [p \in Procs |-> 0]
    /\ cur = [p \in Procs |-> <<>>]
    /\ snapshots = [p \in Procs |-> <<>>]
    /\ saved = [p \in Procs |-> <<>>]
    /\ lastErr = [p \in Procs |-> "none"]

\* save_snapshot returns Err(e): track_all_images prints it and goes on to the
\* next image, run_ci propagates it with `?` and the run ends
SaveFailed(p, e) ==
    /\ lastErr' = [lastErr EXCEPT ![p] = e]
    /\ cur' = [cur EXCEPT ![p] = <<>>]
    /\ pc' = [pc EXCEPT ![p] = IF mode[p] = "ci" THEN "aborted" ELSE "loop"]
    /\ UNCHANGED <<prior, mode, nsaves, snapshots, saved>>

\* save_snapshot returns Ok(())
SaveSucceeded(p) ==
    /\ saved' = [saved EXCEPT ![p] = Append(saved[p], cur[p][1])]
    /\ cur' = [cur EXCEPT ![p] = <<>>]
    /\ pc' = [pc EXCEPT ![p] = "loop"]
    /\ UNCHANGED <<prior, mode, nsaves, snapshots, lastErr>>

\* An invocation starts: dit track-all, or dit in CI mode
Start(p, m) ==
    /\ pc[p] = "off"
    /\ pc' = [pc EXCEPT ![p] = "loop"]
    /\ mode' = [mode EXCEPT ![p] = m]
    /\ UNCHANGED <<dirExists, file, prior, nsaves, cur, snapshots, saved, lastErr>>

\* The for loop has no image left
LoopDone(p) ==
    /\ pc[p] = "loop"
    /\ pc' = [pc EXCEPT ![p] = "done"]
    /\ UNCHANGED <<dirExists, file, prior, mode, nsaves, cur, snapshots, saved, lastErr>>

\* save_snapshot(&snapshot) is called: dit_dir.exists()
SaveBegin(p, s) ==
    /\ pc[p] = "loop"
    /\ nsaves[p] < Limit(p)
    /\ nsaves' = [nsaves EXCEPT ![p] = nsaves[p] + 1]
    /\ cur' = [cur EXCEPT ![p] = Some(s)]
    /\ lastErr' = [lastErr EXCEPT ![p] = "none"]
    /\ pc' = [pc EXCEPT ![p] = IF dirExists THEN "read" ELSE "mkdir"]
    /\ UNCHANGED <<dirExists, file, prior, mode, snapshots, saved>>

\* fs::create_dir(&dit_dir) succeeds
CreateDirOk(p) ==
    /\ pc[p] = "mkdir"
    /\ ~dirExists
    /\ dirExists' = TRUE
    /\ pc' = [pc EXCEPT ![p] = "read"]
    /\ UNCHANGED <<file, prior, mode, nsaves, cur, snapshots, saved, lastErr>>

\* fs::create_dir(&dit_dir) fails (the directory appeared meanwhile, or an I/O error)
CreateDirErr(p) ==
    /\ pc[p] = "mkdir"
    /\ SaveFailed(p, "create_dir")
    /\ UNCHANGED <<dirExists, file>>

\* Variant: a load that takes content it cannot parse for an empty history
ReadHistoryLenient(p) ==
    /\ pc[p] = "read"
    /\ snapshots' = [snapshots EXCEPT ![p] = Append(LoadHistory(file).value, cur[p][1])]
    /\ pc' = [pc EXCEPT ![p] = "create"]
    /\ UNCHANGED <<dirExists, file, prior, mode, nsaves, cur, saved, lastErr>>

\* history_path.exists(), fs::read_to_string, serde_json::from_str, snapshots.push
ReadHistory(p) ==
    /\ pc[p] = "read"
    /\ IF LoadHistory(file).ok
       THEN /\ snapshots' = [snapshots EXCEPT ![p] = Append(LoadHistory(file).value, cur[p][1])]
            /\ pc' = [pc EXCEPT ![p] = "create"]
            /\ UNCHANGED <<dirExists, file, prior, mode, nsaves, cur, saved, lastErr>>
       ELSE /\ SaveFailed(p, "parse")
            /\ UNCHANGED <<dirExists, file>>

\* fs::read_to_string(&history_path) fails
ReadErr(p) ==
    /\ pc[p] = "read"
    /\ file.exists
    /\ SaveFailed(p, "read")
    /\ UNCHANGED <<dirExists, file>>

\* fs::write opens the file: created if absent, truncated to length 0
WriteCreate(p) ==
    /\ pc[p] = "create"
    /\ file' = FileWith(<<>>)
    /\ pc' = [pc EXCEPT ![p] = "write"]
    /\ UNCHANGED <<dirExists, prior, mode, nsaves, cur, snapshots, saved, lastErr>>

\* fs::write cannot open the file
WriteCreateErr(p) ==
    /\ pc[p] = "create"
    /\ SaveFailed(p, "write")
    /\ UNCHANGED <<dirExists, file>>

\* Variant: a write-back that loads the file again and appends to what it holds now
WriteAllMerging(p) ==
    /\ pc[p] = "write"
    /\ file' = FileWith(ToStringPretty(
                  IF LoadHistory(file).ok
                  THEN Append(LoadHistory(file).value, cur[p][1])
                  ELSE snapshots[p]))
    /\ SaveSucceeded(p)
    /\ UNCHANGED dirExists

\* fs::write writes the whole text, save_snapshot returns Ok(())
WriteAll(p) ==
    /\ pc[p] = "write"
    /\ file' = FileWith(Overwrite(file.content, ToStringPretty(snapshots[p])))
    /\ SaveSucceeded(p)
    /\ UNCHANGED dirExists

\* fs::write fails after k tokens of the text
WriteErr(p) ==
    /\ pc[p] = "write"
    /\ \E k \in 0..(Len(ToStringPretty(snapshots[p])) - 1) :
          file' = FileWith(Overwrite(file.content, SubSeq(ToStringPretty(snapshots[p]), 1, k)))
    /\ SaveFailed(p, "write")
    /\ UNCHANGED dirExists

Modes == {"track_all", "ci"}

\* compute_diff is not running while the store is exercised
DiffIdle ==
    /\ dBefore = SnapA
    /\ dAfter = SnapA
    /\ dResult = <<>>
    /\ dPc = "idle"

\* No diff_images call or run_ci round is being resolved
ResolveIdle ==
    /\ qArgs = <<>>
    /\ qOut = <<>>

\* check_budgets is not running
BudgetIdle ==
    /\ bComparisons = <<>>
    /\ bConfig = <<>>
    /\ bOut = <<>>

\* No batch command is modelled as a whole
RunIdle ==
    /\ rCmd = "none"
    /\ rConfig = <<>>
    /\ rPc = "off"
    /\ rCurrent = <<>>
    /\ rHistory = <<>>
    /\ rComparisons = <<>>
    /\ rLog = <<>>
    /\ rOut = <<>>

\* No pull request is commented on
PublishIdle ==
    /\ gComments = <<>>
    /\ gCalls = <<>>
    /\ gFailed = 0

Init == StoreInit /\ DiffIdle /\ ResolveIdle /\ BudgetIdle /\ RunIdle /\ PublishIdle

Next ==
    \/ \E p \in Procs, m \in Modes : Start(p, m) /\ UNCHANGED <<diffVars, resolveVars, budgetVars, runVars, publishVars>>
    \/ \E p \in Procs : LoopDone(p) /\ UNCHANGED <<diffVars, resolveVars, budgetVars, runVars, publishVars>>
    \/ \E p \in Procs, s \in Captured : SaveBegin(p, s) /\ UNCHANGED <<diffVars, resolveVars, budgetVars, runVars, publishVars>>
    \/ \E p \in Procs : CreateDirOk(p) /\ UNCHANGED <<diffVars, resolveVars, budgetVars, runVars, publishVars>>
    \/ \E p \in Procs : CreateDirErr(p) /\ UNCHANGED <<diffVars, resolveVars, budgetVars, runVars, publishVars>>
    \/ \E p \in Procs : ReadHistory(p) /\ UNCHANGED <<diffVars, resolveVars, budgetVars, runVars, publishVars>>
    \/ \E p \in Procs : ReadErr(p) /\ UNCHANGED <<diffVars, resolveVars, budgetVars, runVars, publishVars>>
    \/ \E p \in Procs : WriteCreate(p) /\ UNCHANGED <<diffVars, resolveVars, budgetVars, runVars, publishVars>>
    \/ \E p \in Procs : WriteCreateErr(p) /\ UNCHANGED <<diffVars, resolveVars, budgetVars, runVars, publishVars>>
    \/ \E p \in Procs : WriteAll(p) /\ UNCHANGED <<diffVars, resolveVars, budgetVars, runVars, publishVars>>
    \/ \E p \in Procs : WriteErr(p) /\ UNCHANGED <<diffVars, resolveVars, budgetVars, runVars, publishVars>>

Spec == Init /\ [][Next]_vars

(***************************************************************************)
(* History store: claims C1 to C6.                                         *)
(***************************************************************************)
\* No other invocation touches the store
Quiet(p) == \A q \in Others(p) : pc[q] = "off"

\* The invocation is not inside a save_snapshot call
BetweenCalls(p) == pc[p] \in {"off", "loop", "done", "aborted"}

\* Load returns exactly the history h
StoreHolds(h) == LoadHistory(file) = [ok |-> TRUE, value |-> h]

Front(s) == SubSeq(s, 1, Len(s) - 1)

Malformed(f) == f.exists /\ ~IsHistoryJson(f.content)

\* C1: the store is append-only and round-trips: with no other invocation
\* running, between any two save_snapshot calls Load returns the history the
\* store began with followed by every snapshot saved so far, in order and
\* field for field; no call alters or removes a stored snapshot.
C1_AppendOnlyRoundTrip ==
    \A p \in Procs :
        (Quiet(p) /\ BetweenCalls(p)) => StoreHolds(PriorHistory \o saved[p])

\* C2: save_snapshot is atomic under failure: with no other invocation
\* running, after a call that failed in its write-back the store still holds
\* exactly the history it held before the call.
C2_AppendAtomic ==
    \A p \in Procs :
        (Quiet(p) /\ BetweenCalls(p) /\ lastErr[p] = "write")
            => StoreHolds(Front(snapshots[p]))

\* C3: appends of one batch never overlap and no update is lost: an invocation
\* is inside at most one save_snapshot call, and when its run has ended with no
\* other invocation running, the store holds its previous history followed by
\* exactly the snapshots the run saved, in processing order.
C3_BatchSerialized ==
    \A p \in Procs :
        /\ Len(cur[p]) <= 1
        /\ (Quiet(p) /\ pc[p] \in {"done", "aborted"})
              => /\ LoadHistory(file).ok
                 /\ LoadHistory(file).value = PriorHistory \o saved[p]

\* C4: two invocations are not coordinated: a successful write-back puts the
\* text of the invocation's own Vec (what it read, plus its snapshot) at the
\* start of the file, whatever the other invocation stored since the read.
C4_WriteBackIgnoresOthers ==
    [][\A p \in Procs :
          (pc[p] = "write" /\ saved'[p] # saved[p])
              => SubSeq(file'.content, 1, Len(ToStringPretty(snapshots[p])))
                    = ToStringPretty(snapshots[p])]_vars

\* C4 (witness): both invocations report success for one Append each, and the
\* store holds the previous history followed by only one of the two snapshots.
C4_LostUpdate ==
    /\ saved["p1"] = <<SnapA>> /\ nsaves["p1"] = 1 /\ pc["p1"] \in {"loop", "done"}
    /\ saved["p2"] = <<SnapB>> /\ nsaves["p2"] = 1 /\ pc["p2"] \in {"loop", "done"}
    /\ lastErr["p1"] = "none" /\ lastErr["p2"] = "none"
    /\ StoreHolds(PriorHistory \o <<SnapB>>)

\* C5: an absent store is an empty history, not an error: Load of an absent
\* file is the empty sequence; the first Append on an absent store never fails
\* in its read step, and once it has succeeded (no other invocation running)
\* the directory and the file exist and the store holds exactly that snapshot.
C5_AbsentStoreIsEmpty ==
    /\ ~file.exists => LoadHistory(file) = [ok |-> TRUE, value |-> <<>>]
    /\ \A p \in Procs :
          (Quiet(p) /\ prior = None /\ nsaves[p] = 1)
              => /\ lastErr[p] \notin {"parse", "read"}
                 /\ (BetweenCalls(p) /\ Len(saved[p]) = 1)
                       => /\ dirExists
                          /\ file.exists
                          /\ StoreHolds(<<saved[p][1]>>)

\* C5 (witness): the first Append on an absent store has succeeded and the
\* store, now present, holds that one snapshot.
C5_FirstAppendDone ==
    /\ prior = None /\ Quiet("p1") /\ nsaves["p1"] = 1 /\ pc["p1"] = "loop"
    /\ saved["p1"] = <<SnapA>>
    /\ file.exists /\ StoreHolds(<<SnapA>>)

\* C6: malformed content is a hard failure: a save_snapshot call that reads a
\* file which does not parse returns an error (Corrupt, or the read error),
\* saves nothing, and leaves the file exactly as it was.
C6_CorruptIsHardFailure ==
    [][\A p \in Procs :
          (pc[p] = "read" /\ pc'[p] # "read" /\ Malformed(file))
              => /\ ~LoadHistory(file).ok
                 /\ file' = file
                 /\ lastErr'[p] \in {"parse", "read"}
                 /\ pc'[p] \in {"loop", "aborted"}
                 /\ saved'[p] = saved[p]]_vars

\* C6 (witness): an Append on a malformed store has failed with Corrupt and
\* the store still holds the malformed content.
C6_AppendOnCorruptFailed ==
    \E p \in Procs : lastErr[p] = "parse" /\ BetweenCalls(p) /\ Malformed(file)

(***************************************************************************)
(* The diff engine: compute_diff (diff.rs, and its copy in ci.rs).         *)
(***************************************************************************)
\* LayerChange: Added(layer) carries the layer in after; Removed(layer) and
\* Unchanged(layer) carry it in before; Modified { before, after } carries both
Added(layer) == [kind |-> "added", before |-> None, after |-> Some(layer)]

Removed(layer) == [kind |-> "removed", before |-> Some(layer), after |-> None]

Unchanged(layer) == [kind |-> "unchanged", before |-> Some(layer), after |-> None]

Modified(b, a) == [kind |-> "modified", before |-> Some(b), after |-> Some(a)]

\* HashMap::insert: the value of an existing key is replaced
MapInsert(m, k, v) == [x \in (DOMAIN m) \cup {k} |-> IF x = k THEN v ELSE m[x]]

\* Variant: inserting only when the key is vacant (entry().or_insert)
MapInsertIfVacant(m, k, v) == IF k \in DOMAIN m THEN m ELSE MapInsert(m, k, v)

\* Variant: a map that keeps the first layer of each digest
RECURSIVE CollectKeepFirst(_, _)
CollectKeepFirst(layers, m) ==
    IF layers = <<>> THEN m
    ELSE CollectKeepFirst(Tail(layers), MapInsertIfVacant(m, layers[1].digest, layers[1]))

\* layers.iter().map(|l| (l.digest.clone(), l.clone())).collect::<HashMap<_, _>>()
RECURSIVE CollectLayers(_, _)
CollectLayers(layers, m) ==
    IF layers = <<>> THEN m
    ELSE CollectLayers(Tail(layers), MapInsert(m, layers[1].digest, layers[1]))

EmptyMap == [x \in {} |-> x]

\* for layer in &before.layers { ... }: modified / unchanged / removed
RECURSIVE BeforeLoop(_, _, _)
BeforeLoop(layers, after_layers, changes) ==
    IF layers = <<>> THEN changes
    ELSE LET layer == layers[1]
             change ==
                 IF layer.digest \in DOMAIN after_layers
                 THEN IF layer.size = after_layers[layer.digest].size
                      THEN Unchanged(layer)
                      ELSE Modified(layer, after_layers[layer.digest])
                 ELSE Removed(layer)
         IN  BeforeLoop(Tail(layers), after_layers, Append(changes, change))

\* Variant: every after layer is reported Added
RECURSIVE AfterLoopAll(_, _, _)
AfterLoopAll(layers, before_layers, changes) ==
    IF layers = <<>> THEN changes
    ELSE AfterLoopAll(Tail(layers), before_layers, Append(changes, Added(layers[1])))

\* for layer in &after.layers { ... }: added
RECURSIVE AfterLoop(_, _, _)
AfterLoop(layers, before_layers, changes) ==
    IF layers = <<>> THEN changes
    ELSE AfterLoop(Tail(layers), before_layers,
                   IF layers[1].digest \notin DOMAIN before_layers
                   THEN Append(changes, Added(layers[1]))
                   ELSE changes)

\* The sum of the layer sizes
RECURSIVE SumSizes(_)
SumSizes(layers) == IF layers = <<>> THEN 0 ELSE layers[1].size + SumSizes(Tail(layers))

\* Variant: the Added records come before the records of the before layers
ComputeDiffAddedFirst(before, after) ==
    [before |-> before,
     after |-> after,
     total_delta |-> after.total_size - before.total_size,
     layer_changes |->
         BeforeLoop(before.layers, CollectLayers(after.layers, EmptyMap),
                    AfterLoop(after.layers, CollectLayers(before.layers, EmptyMap), <<>>))]

\* compute_diff of diff.rs. The sizes are those a capture yields (an i64
\* that is not negative, cast to u64), so `as i64` leaves them as they are and
\* the subtraction stays within i64.
ComputeDiff(before, after) ==
    [before |-> before,
     after |-> after,
     total_delta |-> after.total_size - before.total_size,
     layer_changes |->
         AfterLoop(after.layers, CollectLayers(before.layers, EmptyMap),
                   BeforeLoop(before.layers, CollectLayers(after.layers, EmptyMap), <<>>))]

\* Variant: total_delta taken from the sums of the layer sizes
CiComputeDiffFromLayers(before, after) ==
    [before |-> before,
     after |-> after,
     total_delta |-> SumSizes(after.layers) - SumSizes(before.layers),
     layer_changes |->
         AfterLoop(after.layers, CollectLayers(before.layers, EmptyMap),
                   BeforeLoop(before.layers, CollectLayers(after.layers, EmptyMap), <<>>))]

\* compute_diff of ci.rs
CiComputeDiff(before, after) ==
    [before |-> before,
     after |-> after,
     total_delta |-> after.total_size - before.total_size,
     layer_changes |->
         AfterLoop(after.layers, CollectLayers(before.layers, EmptyMap),
                   BeforeLoop(before.layers, CollectLayers(after.layers, EmptyMap), <<>>))]

\* The layers and snapshots compute_diff is given: total_size is the image's
\* own figure, not the sum of the layers
\* inspect_image: a history entry without an id gets the placeholder digest
LayerDigest(id) == IF id = "" THEN "<missing>" ELSE id

\* Captured layers: two entries without an id (the same placeholder digest,
\* different sizes) and two entries with an id
LayerM10 == LayerInfo(LayerDigest(""), 10)

LayerM20 == LayerInfo(LayerDigest(""), 20)

LayerD2 == LayerInfo(LayerDigest("d2"), 30)

LayerD3 == LayerInfo(LayerDigest("d3"), 40)

LayerPool == {LayerM10, LayerM20, LayerD2, LayerD3}

LayerLists == UNION {[1..n -> LayerPool] : n \in 0..MaxLayers}

TotalSizes == {100, 130}

DiffInputs ==
    {ImageSnapshot("app", Some("latest"), None, "abc1234", "main", total, layers) :
        total \in TotalSizes, layers \in LayerLists}

DiffInit ==
    /\ dBefore \in DiffInputs
    /\ dAfter \in DiffInputs
    /\ dResult = <<>>
    /\ dPc = "call"

\* The store is left alone while compute_diff is exercised
StoreIdle ==
    /\ dirExists = FALSE
    /\ prior = None
    /\ file = NoFile
    /\ pc = [p \in Procs |-> "off"]
    /\ mode = [p \in Procs |-> "track_all"]
    /\ nsaves = [p \in Procs |-> 0]
    /\ cur = [p \in Procs |-> <<>>]
    /\ snapshots = [p \in Procs |-> <<>>]
    /\ saved = [p \in Procs |-> <<>>]
    /\ lastErr = [p \in Procs |-> "none"]

\* diff_images: let diff = compute_diff((*before).clone(), (*after).clone())
DiffCall ==
    /\ dPc = "call"
    /\ dResult' = ComputeDiff(dBefore, dAfter)
    /\ dPc' = "diff"
    /\ UNCHANGED <<dBefore, dAfter>>

\* run_ci: let diff = compute_diff(base.clone(), current.clone())
CiDiffCall ==
    /\ dPc = "call"
    /\ dResult' = CiComputeDiff(dBefore, dAfter)
    /\ dPc' = "ci"
    /\ UNCHANGED <<dBefore, dAfter>>

DiffNext ==
    \/ DiffCall /\ UNCHANGED <<storeVars, resolveVars, budgetVars, runVars, publishVars>>
    \/ CiDiffCall /\ UNCHANGED <<storeVars, resolveVars, budgetVars, runVars, publishVars>>

InitDiff == DiffInit /\ StoreIdle /\ ResolveIdle /\ BudgetIdle /\ RunIdle /\ PublishIdle

SpecDiff == InitDiff /\ [][DiffNext]_vars

(***************************************************************************)
(* Diff engine: claims C7 to C10.                                          *)
(***************************************************************************)
Returned == dPc \in {"diff", "ci"}

DigestsOf(layers) == {layers[i].digest : i \in 1..Len(layers)}

UniqueDigests(layers) ==
    \A i, j \in 1..Len(layers) : layers[i].digest = layers[j].digest => i = j

\* The positions in layers of the layers that carry the digest of layer
Matches(layer, layers) == {j \in 1..Len(layers) : layers[j].digest = layer.digest}

MinOf(S) == CHOOSE x \in S : \A y \in S : x <= y

MaxOf(S) == CHOOSE x \in S : \A y \in S : y <= x

\* The after layers whose digest is absent from before, in after-order
AddedLayers(b, a) == LET Absent(l) == l.digest \notin DigestsOf(b) IN SelectSeq(a, Absent)

\* The digest a LayerChange record is about
ChangeDigest(c) == IF c.before # None THEN c.before[1].digest ELSE c.after[1].digest

\* C7: total_delta is after.total_size minus before.total_size, signed,
\* whatever the layer lists are, and the SizeDiff carries before and after
\* unchanged.
C7_TotalDelta ==
    Returned =>
        /\ dResult.total_delta = dAfter.total_size - dBefore.total_size
        /\ dResult.before = dBefore
        /\ dResult.after = dAfter

\* C7 (witness): the image shrank by 30 while its layer sizes add up to a growth.
C7_DeltaNotFromLayers ==
    /\ Returned
    /\ dResult.total_delta = -30
    /\ SumSizes(dAfter.layers) - SumSizes(dBefore.layers) > 0

\* The layer_changes list as C8 words it: one record per before layer, which is
\* Unchanged when after has a layer of that digest and size, Modified when
\* after has the digest with another size, Removed otherwise; then the Added
\* records in after-order.
ChangesAsStated(b, a, ch) ==
    /\ Len(ch) = Len(b) + Len(AddedLayers(b, a))
    /\ \A i \in 1..Len(b) :
          IF \E j \in Matches(b[i], a) : a[j].size = b[i].size
          THEN ch[i] = Unchanged(b[i])
          ELSE IF Matches(b[i], a) # {}
               THEN \E j \in Matches(b[i], a) : ch[i] = Modified(b[i], a[j])
               ELSE ch[i] = Removed(b[i])
    /\ \A k \in 1..Len(AddedLayers(b, a)) : ch[Len(b) + k] = Added(AddedLayers(b, a)[k])

\* The same list with the before layer compared against the last after layer
\* of its digest.
ChangesByLastMatch(b, a, ch) ==
    /\ Len(ch) = Len(b) + Len(AddedLayers(b, a))
    /\ \A i \in 1..Len(b) :
          IF Matches(b[i], a) = {}
          THEN ch[i] = Removed(b[i])
          ELSE LET m == a[MaxOf(Matches(b[i], a))]
               IN  ch[i] = IF m.size = b[i].size THEN Unchanged(b[i]) ELSE Modified(b[i], m)
    /\ \A k \in 1..Len(AddedLayers(b, a)) : ch[Len(b) + k] = Added(AddedLayers(b, a)[k])

\* C8 (as stated): layer_changes is one record per before layer, in
\* before-order, Unchanged when after has a layer with the same digest and the
\* same size, Modified when the digest matches but the size differs, Removed
\* when no after layer has the digest, followed by one Added record, in
\* after-order, per after layer whose digest is absent from before.
C8_ChangesAsStated ==
    Returned => ChangesAsStated(dBefore.layers, dAfter.layers, dResult.layer_changes)

\* C8 (amended): the same list, where the after layer a before layer is
\* compared with (Unchanged or Modified, and Modified's after) is the last
\* after layer of that digest; when the digests of after are unique this is
\* the list as stated, and a snapshot with unique digests diffed against
\* itself gives only Unchanged records.
C8_LayerChanges ==
    Returned =>
        /\ ChangesByLastMatch(dBefore.layers, dAfter.layers, dResult.layer_changes)
        /\ UniqueDigests(dAfter.layers)
              => ChangesAsStated(dBefore.layers, dAfter.layers, dResult.layer_changes)
        /\ (UniqueDigests(dAfter.layers) /\ dBefore.layers = dAfter.layers)
              => \A k \in 1..Len(dResult.layer_changes) :
                    dResult.layer_changes[k].kind = "unchanged"

\* C8 (witness): a snapshot whose two layers share a digest, diffed against
\* the same layers: the first layer is reported Modified, not Unchanged.
C8_SameLayersModified ==
    /\ Returned
    /\ dBefore.layers = <<LayerM10, LayerM20>>
    /\ dAfter.layers = dBefore.layers
    /\ dResult.layer_changes =
          <<Modified(LayerM10, LayerM20), Unchanged(LayerM20)>>

\* C9: with digests unique within each side, every digest only in before has
\* exactly one record, Removed; every digest only in after exactly one, Added;
\* every digest on both sides exactly one, Unchanged or Modified; a digest on
\* neither side has none. With an empty before every after layer is Added, with
\* an empty after every before layer is Removed.
C9_Partition ==
    Returned =>
        LET b == dBefore.layers
            a == dAfter.layers
            ch == dResult.layer_changes
            Records(d) == {k \in 1..Len(ch) : ChangeDigest(ch[k]) = d}
        IN  /\ (UniqueDigests(b) /\ UniqueDigests(a)) =>
                  \A d \in {l.digest : l \in LayerPool} :
                      /\ (d \in DigestsOf(b) \ DigestsOf(a)) =>
                            \E k \in Records(d) : Records(d) = {k} /\ ch[k].kind = "removed"
                      /\ (d \in DigestsOf(a) \ DigestsOf(b)) =>
                            \E k \in Records(d) : Records(d) = {k} /\ ch[k].kind = "added"
                      /\ (d \in DigestsOf(a) \cap DigestsOf(b)) =>
                            \E k \in Records(d) :
                                Records(d) = {k} /\ ch[k].kind \in {"unchanged", "modified"}
                      /\ (d \notin DigestsOf(a) \cup DigestsOf(b)) => Records(d) = {}
            /\ b = <<>> => ch = [k \in 1..Len(a) |-> Added(a[k])]
            /\ a = <<>> => ch = [k \in 1..Len(b) |-> Removed(b[k])]

\* C9 (witness): unique digests, one on both sides, one only in before, one
\* only in after.
C9_ThreeClasses ==
    /\ Returned
    /\ dBefore.layers = <<LayerM10, LayerD2>>
    /\ dAfter.layers = <<LayerM20, LayerD3>>
    /\ dResult.layer_changes =
          <<Modified(LayerM10, LayerM20),
            Removed(LayerD2),
            Added(LayerD3)>>

\* C10 (as stated): a before layer whose digest occurs in after is compared
\* with the first after layer of that digest.
C10_FirstMatchWins ==
    Returned =>
        \A i \in 1..Len(dBefore.layers) :
            LET l == dBefore.layers[i]
                hits == Matches(l, dAfter.layers)
            IN  hits # {} =>
                    dResult.layer_changes[i] =
                        IF dAfter.layers[MinOf(hits)].size = l.size
                        THEN Unchanged(l)
                        ELSE Modified(l, dAfter.layers[MinOf(hits)])

\* C10 (amended): a before layer whose digest occurs in after is compared with
\* the last after layer of that digest (the HashMap keeps the layer inserted
\* last): Unchanged or Modified, and Modified's after, follow that layer.
C10_LastMatchWins ==
    Returned =>
        \A i \in 1..Len(dBefore.layers) :
            LET l == dBefore.layers[i]
                hits == Matches(l, dAfter.layers)
            IN  hits # {} =>
                    dResult.layer_changes[i] =
                        IF dAfter.layers[MaxOf(hits)].size = l.size
                        THEN Unchanged(l)
                        ELSE Modified(l, dAfter.layers[MaxOf(hits)])

\* C10 (witness): the digest of the before layer occurs twice in after, first
\* with the same size, last with another: the record is Modified against the
\* last one.
C10_DuplicateInAfter ==
    /\ Returned
    /\ dBefore.layers = <<LayerM10>>
    /\ dAfter.layers = <<LayerM10, LayerM20>>
    /\ dResult.layer_changes = <<Modified(LayerM10, LayerM20)>>

(***************************************************************************)
(* The baseline resolver: diff_images (diff.rs) and find_baseline_snapshot *)
(* with the loop of run_ci that calls it (ci.rs).  A commit identifier     *)
(* and a commit_sha are sequences of characters, so that starts_with is a  *)
(* prefix test.                                                            *)
(***************************************************************************)
\* entries of the history a resolution runs against, at most
MaxHistory == 3

\* str::starts_with
StartsWith(s, prefix) ==
    /\ Len(prefix) <= Len(s)
    /\ SubSeq(s, 1, Len(prefix)) = prefix

\* history.iter().filter(|s| s.image == image).collect()
\* Variant: only the entries of the image that carry the tag latest
FilterImageLatestTag(history, image) ==
    LET Kept(s) == s.image = image /\ s.tag = Some("latest")
    IN  SelectSeq(history, Kept)

RECURSIVE FilterImage(_, _)
FilterImage(history, image) ==
    IF history = <<>> THEN <<>>
    ELSE IF history[1].image = image
         THEN <<history[1]>> \o FilterImage(Tail(history), image)
         ELSE FilterImage(Tail(history), image)

\* Variant: the search runs from the newest entry
RECURSIVE FindSnapshotByCommitNewest(_, _)
FindSnapshotByCommitNewest(history, commit) ==
    IF history = <<>> THEN None
    ELSE IF StartsWith(history[Len(history)].commit_sha, commit)
         THEN Some(history[Len(history)])
         ELSE FindSnapshotByCommitNewest(SubSeq(history, 1, Len(history) - 1), commit)

\* find_snapshot_by_commit: history.iter().find(..starts_with(commit)); None is
\* the Err("No snapshot found for commit ..") of .context()
RECURSIVE FindSnapshotByCommit(_, _)
FindSnapshotByCommit(history, commit) ==
    IF history = <<>> THEN None
    ELSE IF StartsWith(history[1].commit_sha, commit) THEN Some(history[1])
         ELSE FindSnapshotByCommit(Tail(history), commit)

\* Variant: the oldest entry of the branch
FindOldestSnapshotByBranch(history, branch) ==
    LET on_branch == {i \in 1..Len(history) : history[i].branch = branch}
    IN  IF on_branch = {} THEN None
        ELSE Some(history[CHOOSE i \in on_branch : \A j \in on_branch : i <= j])

\* find_latest_snapshot_by_branch: history.iter().rev().find(..branch == branch);
\* None is the Err("No snapshot found for branch ..") of .context()
RECURSIVE FindLatestSnapshotByBranch(_, _)
FindLatestSnapshotByBranch(history, branch) ==
    IF history = <<>> THEN None
    ELSE IF history[Len(history)].branch = branch THEN Some(history[Len(history)])
         ELSE FindLatestSnapshotByBranch(SubSeq(history, 1, Len(history) - 1), branch)

\* The value diff_images ends with: Err(error), or Ok after printing the diff
\* of (before, after) that the strategy chose
DiffFailed(error, strategy) ==
    [status |-> "err", error |-> error, strategy |-> strategy,
     before |-> None, after |-> None, diff |-> None]

DiffPrinted(strategy, before, after) ==
    [status |-> "ok", error |-> "", strategy |-> strategy,
     before |-> Some(before), after |-> Some(after),
     diff |-> Some(ComputeDiff(before, after))]

\* Variant: the default strategy compares the oldest entry with the newest
DiffImagesOldestNewest(f, image, commit_a, commit_b, base_branch) ==
    LET image_history == FilterImage(LoadHistory(f).value, image)
    IN  IF Len(image_history) < 2 THEN DiffFailed("not_enough", "default")
        ELSE DiffPrinted("default", image_history[1], image_history[Len(image_history)])

\* diff_images
DiffImages(f, image, commit_a, commit_b, base_branch) ==
    LET loaded == LoadHistory(f)
        history == loaded.value
        image_history == FilterImage(history, image)
    IN  IF ~loaded.ok THEN DiffFailed("corrupt", "none")
        ELSE IF history = <<>> THEN DiffFailed("no_history", "none")
        ELSE IF image_history = <<>> THEN DiffFailed("no_image_history", "none")
        ELSE IF commit_a # None /\ commit_b # None
        THEN LET snap_a == FindSnapshotByCommit(image_history, commit_a[1])
                 snap_b == FindSnapshotByCommit(image_history, commit_b[1])
             IN  IF snap_a = None \/ snap_b = None
                 THEN DiffFailed("commit_not_found", "pair")
                 ELSE DiffPrinted("pair", snap_a[1], snap_b[1])
        ELSE IF base_branch # None
        THEN LET base_snap == FindLatestSnapshotByBranch(image_history, base_branch[1])
             IN  IF base_snap = None
                 THEN DiffFailed("branch_not_found", "branch")
                 ELSE DiffPrinted("branch", base_snap[1], image_history[Len(image_history)])
        ELSE IF Len(image_history) < 2 THEN DiffFailed("not_enough", "default")
        ELSE DiffPrinted("default", image_history[Len(image_history) - 1],
                         image_history[Len(image_history)])

\* Variant: an image without history is compared with the oldest entry
FindBaselineSnapshotOrOldest(history, image, base_branch) ==
    LET image_history == FilterImage(history, image)
    IN  IF image_history = <<>>
        THEN (IF history = <<>> THEN None ELSE Some(history[1]))
        ELSE IF base_branch # None
             THEN FindLatestSnapshotByBranch(image_history, base_branch[1])
             ELSE Some(image_history[Len(image_history)])

\* Variant: the baseline is the newest entry of the whole history
FindBaselineSnapshotAnyImage(history, image, base_branch) ==
    IF history = <<>> THEN None ELSE Some(history[Len(history)])

\* find_baseline_snapshot
FindBaselineSnapshot(history, image, base_branch) ==
    LET image_history == FilterImage(history, image)
    IN  IF image_history = <<>> THEN None
        ELSE IF base_branch # None
             THEN FindLatestSnapshotByBranch(image_history, base_branch[1])
             ELSE Some(image_history[Len(image_history)])

\* save_snapshot run to its end by the only invocation at work: the ways it
\* can return and the directory and file it leaves
\* Variant: a successful save leaves the new snapshot alone in the file
SaveSnapshotOutcomesReplace(dir, f, s) ==
    {[ok |-> FALSE, dir |-> TRUE, file |-> f],
     [ok |-> TRUE, dir |-> TRUE, file |-> FileWith(ToStringPretty(<<s>>))]}

SaveSnapshotOutcomes(dir, f, s) ==
    LET data == ToStringPretty(Append(LoadHistory(f).value, s))
    IN  (IF dir THEN {} ELSE {[ok |-> FALSE, dir |-> FALSE, file |-> f]})
        \cup {[ok |-> FALSE, dir |-> TRUE, file |-> f]}
        \cup (IF ~LoadHistory(f).ok THEN {}
              ELSE {[ok |-> FALSE, dir |-> TRUE, file |-> FileWith(SubSeq(data, 1, k))] :
                       k \in 0..(Len(data) - 1)}
                   \cup {[ok |-> TRUE, dir |-> TRUE, file |-> FileWith(data)]})

\* History entries: two commits of app on main, one on feature, one of web, and
\* one of app captured where git gave no context (blank commit and branch)
EntryMain1 == ImageSnapshot("app", Some("latest"), None, <<"a", "b", "1">>, "main", 100,
                            <<LayerInfo("d1", 60), LayerInfo("d2", 40)>>)

EntryMain2 == ImageSnapshot("app", Some("latest"), None, <<"a", "b", "2">>, "main", 120,
                            <<LayerInfo("d1", 60), LayerInfo("d3", 60)>>)

EntryFeature == ImageSnapshot("app", Some("v2"), None, <<"a", "c", "1">>, "feature", 130, <<>>)

EntryWeb == ImageSnapshot("web", Some("latest"), None, <<"a", "b", "2">>, "main", 50, <<>>)

EntryBlank == ImageSnapshot("app", Some("latest"), None, <<>>, "", 110, <<>>)

EntryPool == {EntryMain1, EntryMain2, EntryFeature, EntryWeb, EntryBlank}

Histories == UNION {[1..n -> EntryPool] : n \in 0..MaxHistory}

\* Commit identifiers of the command line: a prefix several entries share, a
\* prefix of one entry, a prefix of none
CommitIds == {<<"a">>, <<"a", "c">>, <<"z">>}

\* commit_a and commit_b are positional: the second is given only after the first
CommitArgs ==
    {<<None, None>>}
    \cup {<<Some(a), None>> : a \in CommitIds}
    \cup {<<Some(a), Some(b)>> : a \in CommitIds, b \in CommitIds}

BaseArgs == {None, Some("main"), Some("release")}

\* The snapshots run_ci captured for its round
CiCaptured ==
    {ImageSnapshot("app", Some("latest"), None, <<"a", "d", "1">>, "feature", 140, <<>>),
     ImageSnapshot("app", Some("v2"), None, <<"a", "d", "1">>, "feature", 150, <<>>),
     ImageSnapshot("web", Some("latest"), None, <<"a", "d", "1">>, "feature", 60, <<>>)}

ResolveArgs ==
    {[path |-> "diff", image |-> image, commit_a |-> c[1], commit_b |-> c[2],
      base_branch |-> base, current |-> None] :
        image \in {"app", "web"}, c \in CommitArgs, base \in BaseArgs}
    \cup {[path |-> "ci", image |-> s.image, commit_a |-> None, commit_b |-> None,
           base_branch |-> base, current |-> Some(s)] :
             s \in CiCaptured, base \in BaseArgs}

\* The store holds a history written by earlier runs, or nothing
ResolveInit ==
    /\ \E h \in Histories :
          /\ prior = (IF h = <<>> THEN None ELSE Some(h))
          /\ file = (IF h = <<>> THEN NoFile ELSE FileWith(ToStringPretty(h)))
          /\ dirExists = (h # <<>>)
    /\ qArgs \in ResolveArgs
    /\ qOut = <<>>
    /\ pc = [p \in Procs |-> "off"]
    /\ mode = [p \in Procs |-> "track_all"]
    /\ nsaves = [p \in Procs |-> 0]
    /\ cur = [p \in Procs |-> <<>>]
    /\ snapshots = [p \in Procs |-> <<>>]
    /\ saved = [p \in Procs |-> <<>>]
    /\ lastErr = [p \in Procs |-> "none"]

\* dit diff <image> [commit_a] [commit_b] [--base <branch>]
DiffImagesCall ==
    /\ qOut = <<>>
    /\ qArgs.path = "diff"
    /\ qOut' = DiffImages(file, qArgs.image, qArgs.commit_a, qArgs.commit_b, qArgs.base_branch)
    /\ UNCHANGED <<qArgs, dirExists, file, prior, pc, mode, nsaves, cur, snapshots, saved, lastErr>>

\* run_ci from load_history() to the end of the first round of its loop:
\* the baseline, the comparison pushed, then save_snapshot(current)?
CiRound ==
    /\ qOut = <<>>
    /\ qArgs.path = "ci"
    /\ LET current == qArgs.current[1]
           baseline == FindBaselineSnapshot(LoadHistory(file).value, current.image,
                                            qArgs.base_branch)
       IN  \E o \in SaveSnapshotOutcomes(dirExists, file, current) :
              /\ qOut' = [status |-> IF o.ok THEN "ok" ELSE "err",
                          error |-> IF o.ok THEN "" ELSE "save",
                          strategy |-> "ci",
                          before |-> baseline,
                          after |-> Some(current),
                          diff |-> IF baseline = None THEN None
                                   ELSE Some(CiComputeDiff(baseline[1], current))]
              /\ file' = o.file
              /\ dirExists' = o.dir
    /\ UNCHANGED <<qArgs, prior, pc, mode, nsaves, cur, snapshots, saved, lastErr>>

ResolveNext ==
    \/ DiffImagesCall /\ UNCHANGED <<diffVars, budgetVars, runVars, publishVars>>
    \/ CiRound /\ UNCHANGED <<diffVars, budgetVars, runVars, publishVars>>

InitResolve == ResolveInit /\ DiffIdle /\ BudgetIdle /\ RunIdle /\ PublishIdle

SpecResolve == InitResolve /\ [][ResolveNext]_vars

(***************************************************************************)
(* Claims about the baseline resolver.                                     *)
(***************************************************************************)
\* diff_images has returned
DiffResolved == qOut # <<>> /\ qArgs.path = "diff"

\* The first round of run_ci has ended
CiResolved == qOut # <<>> /\ qArgs.path = "ci"

\* The entries of the queried image in the history the call found, oldest first
ImageEntries == LET OfImage(s) == s.image = qArgs.image IN SelectSeq(PriorHistory, OfImage)

\* The positions of the entries whose commit_sha begins with the identifier
CommitMatches(h, c) == {i \in 1..Len(h) : StartsWith(h[i].commit_sha, c)}

\* The positions of the entries recorded on the branch
BranchMatches(h, b) == {i \in 1..Len(h) : h[i].branch = b}

\* C11: with two commit identifiers a and b, before is the oldest entry of the
\* image whose commit_sha starts with a and after the oldest whose commit_sha
\* starts with b; when either matches no entry the call fails and no diff is made
C11_ExplicitPair ==
    (DiffResolved /\ qArgs.commit_a # None /\ qArgs.commit_b # None) =>
        LET h == ImageEntries
            ma == CommitMatches(h, qArgs.commit_a[1])
            mb == CommitMatches(h, qArgs.commit_b[1])
        IN  IF ma # {} /\ mb # {}
            THEN /\ qOut.status = "ok"
                 /\ qOut.before = Some(h[MinOf(ma)])
                 /\ qOut.after = Some(h[MinOf(mb)])
                 /\ qOut.diff = Some(ComputeDiff(h[MinOf(ma)], h[MinOf(mb)]))
            ELSE /\ qOut.status = "err"
                 /\ qOut.diff = None
                 /\ h # <<>> => qOut.error = "commit_not_found"

\* An identifier that several entries match resolved to the oldest of them
C11_AmbiguousPrefix ==
    /\ DiffResolved
    /\ qArgs.commit_a = Some(<<"a">>)
    /\ qArgs.commit_b = Some(<<"a", "c">>)
    /\ Cardinality(CommitMatches(ImageEntries, <<"a">>)) >= 2
    /\ qOut.status = "ok"
    /\ qOut.before = Some(ImageEntries[1])
    /\ qOut.before # Some(ImageEntries[Len(ImageEntries)])
    /\ qOut.after # qOut.before

\* C12: the strategy is the explicit pair whenever a commit identifier is
\* given, else the explicit branch whenever a base branch is given, else the
\* default; a given identifier is used: a diff that is printed has a before
\* entry whose commit_sha starts with it
C12_StrategyPriority ==
    (DiffResolved /\ ImageEntries # <<>>) =>
        /\ qOut.strategy =
              (IF qArgs.commit_a # None \/ qArgs.commit_b # None THEN "pair"
               ELSE IF qArgs.base_branch # None THEN "branch"
               ELSE "default")
        /\ (qArgs.commit_a # None /\ qOut.status = "ok") =>
              StartsWith(qOut.before[1].commit_sha, qArgs.commit_a[1])

\* C13: with a base branch, before is the newest entry of the image recorded on
\* that branch, in the diff command and in the CI run alike; when the image has
\* entries but none on the branch the resolution fails with NotFound
C13_ExplicitBranch ==
    (/\ qOut # <<>>
     /\ qArgs.commit_a = None
     /\ qArgs.base_branch # None
     /\ ImageEntries # <<>>) =>
        LET h == ImageEntries
            m == BranchMatches(h, qArgs.base_branch[1])
        IN  IF m # {}
            THEN qOut.before = Some(h[MaxOf(m)])
            ELSE /\ qOut.status = "err"
                 /\ qOut.error = "branch_not_found"
                 /\ qOut.diff = None

\* C14: in the CI run with a base branch the baseline is None only when the
\* image has no entry at all; with entries but none on the base branch the run
\* fails with NotFound and is not treated as a first run
C14_CiBranchBaseline ==
    (CiResolved /\ qArgs.base_branch # None) =>
        /\ qOut.before = None /\ qOut.error # "branch_not_found" => ImageEntries = <<>>
        /\ (ImageEntries # <<>> /\ BranchMatches(ImageEntries, qArgs.base_branch[1]) = {}) =>
              qOut.error = "branch_not_found"

\* C15: in the CI run without a base branch the baseline is None exactly when
\* the history has no entry of the image; otherwise it is the newest entry of
\* the image, whatever its branch, and the diff is (before = baseline, after =
\* the new snapshot)
C15_CiLatestBaseline ==
    (CiResolved /\ qArgs.base_branch = None) =>
        LET h == ImageEntries
        IN  /\ qOut.before = None <=> h = <<>>
            /\ h = <<>> => qOut.diff = None
            /\ h # <<>> =>
                  /\ qOut.before = Some(h[Len(h)])
                  /\ qOut.diff # None
                  /\ qOut.diff[1].before = h[Len(h)]
                  /\ qOut.diff[1].after = qArgs.current[1]
                  /\ qOut.diff = Some(CiComputeDiff(h[Len(h)], qArgs.current[1]))

\* The newest entry of the history is of another image and the newest entry of
\* the image is on another branch than the new snapshot: it is the baseline
C15_OtherBranchBaseline ==
    /\ CiResolved
    /\ qArgs.base_branch = None
    /\ Len(PriorHistory) = 3
    /\ PriorHistory[3].image # qArgs.image
    /\ PriorHistory[2].image = qArgs.image
    /\ PriorHistory[1].image = qArgs.image
    /\ PriorHistory[1] # PriorHistory[2]
    /\ PriorHistory[2].branch # qArgs.current[1].branch
    /\ qOut.before = Some(PriorHistory[2])
    /\ qOut.status = "ok"

\* C16: the diff command without commit identifiers and base branch compares
\* the two newest entries of the image (before the second newest, after the
\* newest) and fails without a diff when the image has fewer than two; the
\* diff command leaves the store as it found it
C16_DefaultLastTwo ==
    DiffResolved =>
        /\ dirExists = (prior # None)
        /\ file = (IF prior = None THEN NoFile ELSE FileWith(ToStringPretty(prior[1])))
        /\ (qArgs.commit_a = None /\ qArgs.commit_b = None /\ qArgs.base_branch = None) =>
              LET h == ImageEntries
              IN  IF Len(h) >= 2
                  THEN /\ qOut.status = "ok"
                       /\ qOut.before = Some(h[Len(h) - 1])
                       /\ qOut.after = Some(h[Len(h)])
                       /\ qOut.diff = Some(ComputeDiff(h[Len(h) - 1], h[Len(h)]))
                  ELSE /\ qOut.status = "err"
                       /\ qOut.error \in {"no_history", "no_image_history", "not_enough"}
                       /\ qOut.diff = None

\* Three different entries of the image: the oldest is left out of the comparison
C16_ThreeEntries ==
    /\ DiffResolved
    /\ qArgs.commit_a = None /\ qArgs.base_branch = None
    /\ Len(ImageEntries) = 3
    /\ ImageEntries[1] # ImageEntries[2]
    /\ ImageEntries[2] # ImageEntries[3]
    /\ qOut.before = Some(ImageEntries[2])
    /\ qOut.after = Some(ImageEntries[3])

(***************************************************************************)
(* f64 arithmetic of check_budgets.  A positive f64 is [e, m]: m its       *)
(* significand, F64Bits binary digits, most significant first, m[1] = 1,   *)
(* and e the exponent of m[1]; its value is the sum of m[i] * 2^(e-i+1).   *)
(* Every operation rounds its exact result to nearest, ties to even.       *)
(***************************************************************************)
\* binary digits of the significand of an f64
F64Bits == 53

\* The binary digits of a natural number, most significant first
RECURSIVE IntBits(_)
IntBits(n) == IF n = 0 THEN <<>> ELSE IntBits(n \div 2) \o <<n % 2>>

RECURSIVE BitsToInt(_)
BitsToInt(bits) ==
    IF bits = <<>> THEN 0 ELSE 2 * BitsToInt(Front(bits)) + bits[Len(bits)]

\* bits + 1, for bits that are not all ones: the last 0 becomes 1 and the
\* ones behind it become 0
IncBits(bits) ==
    LET last0 == MaxOf({i \in 1..Len(bits) : bits[i] = 0})
    IN  [i \in 1..Len(bits) |-> IF i < last0 THEN bits[i] ELSE IF i = last0 THEN 1 ELSE 0]

\* Round to nearest, ties to even: m holds the F64Bits leading digits of the
\* exact result, guard the next digit, sticky whether a later digit is set
F64Round(e, m, guard, sticky) ==
    IF guard = 1 /\ (sticky \/ m[Len(m)] = 1)
    THEN IF \A i \in 1..Len(m) : m[i] = 1
         THEN [e |-> e + 1, m |-> <<1>> \o [i \in 1..(Len(m) - 1) |-> 0]]
         ELSE [e |-> e, m |-> IncBits(m)]
    ELSE [e |-> e, m |-> m]

\* Scale n / d by powers of two until 1 <= n / d < 2
RECURSIVE Normalize(_, _, _)
Normalize(n, d, e) ==
    IF n >= 2 * d THEN Normalize(n, 2 * d, e + 1)
    ELSE IF n < d THEN Normalize(2 * n, d, e - 1)
    ELSE [n |-> n, d |-> d, e |-> e]

\* The next k binary digits of r / d, for 0 <= r < d < 2^23, and the remainder
\* left: long division, eight digits at a time; rem8[c] is the remainder after
\* 8 * c digits, and digit i is the last binary digit of (r * 2^i) \div d
QuotientBits(r, d, k) ==
    LET rem8[c \in 0..(k \div 8)] == IF c = 0 THEN r ELSE (256 * rem8[c - 1]) % d
        Digit(i) == ((rem8[(i - 1) \div 8] * 2^(i - 8 * ((i - 1) \div 8))) \div d) % 2
    IN  [bits |-> [i \in 1..k |-> Digit(i)],
         rem |-> (rem8[k \div 8] * 2^(k % 8)) % d]

\* n as f64 / d as f64, for integers 0 < n, d < 2^53 (the conversions are exact)
F64Div(n, d) ==
    LET s == Normalize(n, d, 0)
        q == QuotientBits(s.n - s.d, s.d, F64Bits)
    IN  F64Round(s.e, <<1>> \o SubSeq(q.bits, 1, F64Bits - 1), q.bits[F64Bits], q.rem # 0)

\* The digits of bits * k, for a natural number 0 < k < 2^22 and bits that
\* begin with 1: schoolbook multiplication, eight digits at a time.  byte[c] is
\* the c-th group of eight digits from the right (digits missing on the left
\* are 0), carry[c] the carry out of the c lowest groups
MulBits(bits, k) ==
    LET n == Len(bits)
        groups == (n + 7) \div 8
        At(i) == IF i >= 1 THEN bits[i] ELSE 0
        byte == [c \in 1..groups |->
                    BitsToInt([j \in 1..8 |-> At(n - 8 * c + j)])]
        carry[c \in 0..groups] ==
            IF c = 0 THEN 0 ELSE (byte[c] * k + carry[c - 1]) \div 256
        out == [c \in 1..groups |-> (byte[c] * k + carry[c - 1]) % 256]
        low == [i \in 1..(8 * groups) |->
                   (out[groups - ((i - 1) \div 8)] \div 2^(7 - ((i - 1) % 8))) % 2]
        all == IntBits(carry[groups]) \o low
        first1 == MinOf({i \in 1..Len(all) : all[i] = 1})
    IN  SubSeq(all, first1, Len(all))

\* x * (k as f64), for an integer 0 < k < 2^53
F64MulInt(x, k) ==
    LET p == MulBits(x.m, k)
    IN  F64Round(x.e + (Len(p) - F64Bits),
                 SubSeq(p, 1, F64Bits),
                 IF Len(p) > F64Bits THEN p[F64Bits + 1] ELSE 0,
                 \E i \in (F64Bits + 2)..Len(p) : p[i] = 1)

\* x > (t as f64), for an integer 0 <= t and x below 2^F64Bits
F64GtInt(x, t) ==
    IF x.e < 0 THEN t = 0
    ELSE LET whole == BitsToInt(SubSeq(x.m, 1, x.e + 1))
         IN  \/ whole > t
             \/ whole = t /\ \E i \in (x.e + 2)..F64Bits : x.m[i] = 1

\* (delta as f64 / before as f64) * 100.0 > threshold, for before > 0 and an
\* integral threshold >= 0; a delta <= 0 gives a percent <= 0
PercentExceeds(delta, before, threshold) ==
    /\ delta > 0
    /\ \E quotient \in {F64Div(delta, before)} :
          \E percent \in {F64MulInt(quotient, 100)} :
             F64GtInt(percent, threshold)

(***************************************************************************)
(* The budget gate: check_budgets (ci.rs).  It returns failed; the         *)
(* violations are the lines it prints with eprintln!, kept here as records *)
(* [kind, index, image, observed, limit], index the position in            *)
(* comparisons of the pair the line is about (0 for the whole batch).      *)
(***************************************************************************)
\* pairs in the comparisons given to check_budgets, at most
MaxComparisons == 2

\* comparisons.iter().map(|(s, _)| s.total_size).sum(), the sum staying below 2^64
RECURSIVE TotalCurrent(_)
TotalCurrent(comparisons) ==
    IF comparisons = <<>> THEN 0
    ELSE comparisons[1][1].total_size + TotalCurrent(Tail(comparisons))

\* format!("{}:{}", current.image, current.tag.as_deref().unwrap_or("latest"))
ImageName(current) ==
    <<current.image, IF current.tag = None THEN "latest" ELSE current.tag[1]>>

\* The positions of comparisons, in the order a for loop visits them
Positions(comparisons) == [i \in 1..Len(comparisons) |-> i]

\* Variant: a total equal to the budget is a violation too
BudgetLinesInclusive(comparisons, config) ==
    IF config.budget_bytes # None /\ TotalCurrent(comparisons) >= config.budget_bytes[1]
    THEN <<[kind |-> "budget", index |-> 0, image |-> <<>>,
            observed |-> TotalCurrent(comparisons), limit |-> config.budget_bytes[1]]>>
    ELSE <<>>

\* check_budgets: "Check total budget"
BudgetLines(comparisons, config) ==
    IF config.budget_bytes # None /\ TotalCurrent(comparisons) > config.budget_bytes[1]
    THEN <<[kind |-> "budget", index |-> 0, image |-> <<>>,
            observed |-> TotalCurrent(comparisons), limit |-> config.budget_bytes[1]]>>
    ELSE <<>>

\* check_budgets: "Check increase threshold"
PercentLines(comparisons, config) ==
    IF config.budget_increase_percent = None THEN <<>>
    ELSE LET threshold == config.budget_increase_percent[1]
             Picks(i) ==
                 /\ comparisons[i][2] # None
                 /\ comparisons[i][2][1].before.total_size > 0
                 /\ PercentExceeds(comparisons[i][2][1].total_delta,
                                   comparisons[i][2][1].before.total_size, threshold)
             Line(i) == [kind |-> "percent", index |-> i,
                         image |-> ImageName(comparisons[i][1]),
                         observed |-> comparisons[i][2][1].total_delta,
                         limit |-> threshold]
             picked == SelectSeq(Positions(comparisons), Picks)
         IN  [j \in 1..Len(picked) |-> Line(picked[j])]

\* Variant: a comparison whose size did not change is reported too
IncreaseLinesNotSmaller(comparisons, config) ==
    IF ~config.fail_on_increase THEN <<>>
    ELSE LET Picks(i) ==
                 /\ comparisons[i][2] # None
                 /\ comparisons[i][2][1].total_delta >= 0
             Line(i) == [kind |-> "increase", index |-> i,
                         image |-> ImageName(comparisons[i][1]),
                         observed |-> comparisons[i][2][1].total_delta,
                         limit |-> 0]
             picked == SelectSeq(Positions(comparisons), Picks)
         IN  [j \in 1..Len(picked) |-> Line(picked[j])]

\* check_budgets: "Check fail-on-increase"
IncreaseLines(comparisons, config) ==
    IF ~config.fail_on_increase THEN <<>>
    ELSE LET Picks(i) ==
                 /\ comparisons[i][2] # None
                 /\ comparisons[i][2][1].total_delta > 0
             Line(i) == [kind |-> "increase", index |-> i,
                         image |-> ImageName(comparisons[i][1]),
                         observed |-> comparisons[i][2][1].total_delta,
                         limit |-> 0]
             picked == SelectSeq(Positions(comparisons), Picks)
         IN  [j \in 1..Len(picked) |-> Line(picked[j])]

\* Variant: the checks stop at the first one that fails
CheckBudgetsFirstFailure(comparisons, config) ==
    LET lines == IF BudgetLines(comparisons, config) # <<>>
                 THEN BudgetLines(comparisons, config)
                 ELSE IF PercentLines(comparisons, config) # <<>>
                 THEN PercentLines(comparisons, config)
                 ELSE IncreaseLines(comparisons, config)
    IN  [failed |-> lines # <<>>, violations |-> lines]

\* check_budgets: failed is set wherever a line is printed
CheckBudgets(comparisons, config) ==
    LET lines == BudgetLines(comparisons, config)
                 \o PercentLines(comparisons, config)
                 \o IncreaseLines(comparisons, config)
    IN  [failed |-> lines # <<>>, violations |-> lines]

\* The snapshots of a CI batch and their baselines
Current(total) == ImageSnapshot("app", Some("latest"), None, "abc1234", "feature", total, <<>>)

Baseline(total) == ImageSnapshot("app", Some("latest"), None, "def5678", "main", total, <<>>)

\* A first run, an unchanged size, growth by 7, 9, 10 and 11 percent, a smaller
\* image, and a baseline of size 0
ComparisonPool ==
    {<<Current(100), None>>}
    \cup {<<Current(total), Some(CiComputeDiff(Baseline(100), Current(total)))>> :
             total \in {90, 100, 107, 109, 110, 111}}
    \cup {<<Current(107), Some(CiComputeDiff(Baseline(0), Current(107)))>>}

Batches == UNION {[1..n -> ComparisonPool] : n \in 0..MaxComparisons}

\* The policy fields of CiConfig; the percent threshold is an f64 with an
\* integral value
Policies ==
    [budget_bytes : {None, Some(200)},
     budget_increase_percent : {None, Some(7), Some(10)},
     fail_on_increase : BOOLEAN]

BudgetInit ==
    /\ bComparisons \in Batches
    /\ bConfig \in Policies
    /\ bOut = <<>>

\* run_ci: let should_fail = check_budgets(&comparisons, &config)?; the process
\* exits with 1 when it is true
CheckBudgetsCall ==
    /\ bOut = <<>>
    /\ LET r == CheckBudgets(bComparisons, bConfig)
       IN  bOut' = [failed |-> r.failed, violations |-> r.violations,
                    exit |-> IF r.failed THEN 1 ELSE 0]
    /\ UNCHANGED <<bComparisons, bConfig>>

BudgetNext ==
    \/ CheckBudgetsCall /\ UNCHANGED <<storeVars, diffVars, resolveVars, runVars, publishVars>>

InitBudget == BudgetInit /\ StoreIdle /\ DiffIdle /\ ResolveIdle /\ RunIdle /\ PublishIdle

SpecBudget == InitBudget /\ [][BudgetNext]_vars

(***************************************************************************)
(* Claims about the budget gate.                                           *)
(***************************************************************************)
\* check_budgets has returned
Checked == bOut # <<>>

\* The violations of one kind, in the order reported
LinesOfKind(kind) == LET IsKind(v) == v.kind = kind IN SelectSeq(bOut.violations, IsKind)

\* A violation of the kind is reported for the i-th comparison
HasLine(kind, i) ==
    \E j \in 1..Len(bOut.violations) :
        bOut.violations[j].kind = kind /\ bOut.violations[j].index = i

\* The comparison has a baseline
HasBaseline(i) == bComparisons[i][2] # None

\* The sum of total_size over the current snapshots of the batch
BatchTotal ==
    LET sum[i \in 0..Len(bComparisons)] ==
            IF i = 0 THEN 0 ELSE sum[i - 1] + bComparisons[i][1].total_size
    IN  sum[Len(bComparisons)]

\* The policy with every field but one left unconfigured
OnlyBudget == [bConfig EXCEPT !.budget_increase_percent = None, !.fail_on_increase = FALSE]

OnlyPercent == [bConfig EXCEPT !.budget_bytes = None, !.fail_on_increase = FALSE]

OnlyIncrease == [bConfig EXCEPT !.budget_bytes = None, !.budget_increase_percent = None]

\* C17: with an absolute budget there is a violation exactly when the sum of
\* total_size over all current snapshots, those without baseline included, is
\* strictly greater than the budget; it is one violation for the batch, and a
\* sum equal to the budget passes
C17_AbsoluteBudget ==
    Checked =>
        LET lines == LinesOfKind("budget")
        IN  /\ Len(lines) <= 1
            /\ lines # <<>> <=>
                  (bConfig.budget_bytes # None /\ BatchTotal > bConfig.budget_bytes[1])
            /\ lines # <<>> =>
                  /\ lines[1].index = 0
                  /\ lines[1].observed = BatchTotal
                  /\ lines[1].limit = bConfig.budget_bytes[1]
                  /\ bOut.failed

\* The budget is exceeded only because a first-run image is counted
C17_FirstRunCounted ==
    /\ Checked
    /\ bConfig.budget_bytes = Some(200)
    /\ Len(bComparisons) = 2
    /\ ~HasBaseline(1) /\ HasBaseline(2)
    /\ bComparisons[2][1].total_size <= 200
    /\ BatchTotal > 200
    /\ Len(LinesOfKind("budget")) = 1

\* C18: with a percent threshold, a comparison with a baseline of size other
\* than 0 is a violation exactly when (after - before) * 100 > threshold * before,
\* so that exact equality passes; a comparison without baseline or with a
\* baseline of size 0 is never a percent violation
C18_PercentThreshold ==
    Checked =>
        /\ bConfig.budget_increase_percent = None => LinesOfKind("percent") = <<>>
        /\ bConfig.budget_increase_percent # None =>
              \A i \in 1..Len(bComparisons) :
                  HasLine("percent", i) <=>
                      /\ HasBaseline(i)
                      /\ bComparisons[i][2][1].before.total_size # 0
                      /\ (bComparisons[i][2][1].after.total_size
                            - bComparisons[i][2][1].before.total_size) * 100
                         > bConfig.budget_increase_percent[1]
                             * bComparisons[i][2][1].before.total_size

\* C19: with fail-on-increase enabled a comparison is a violation exactly when
\* it has a baseline and total_delta > 0; disabled, nothing is reported
C19_FailOnIncrease ==
    Checked =>
        /\ \A i \in 1..Len(bComparisons) :
              HasLine("increase", i) <=>
                  /\ bConfig.fail_on_increase
                  /\ HasBaseline(i)
                  /\ bComparisons[i][2][1].total_delta > 0
        /\ Len(LinesOfKind("increase")) =
              Cardinality({i \in 1..Len(bComparisons) : HasLine("increase", i)})
        /\ LinesOfKind("increase") # <<>> => bOut.failed

\* An unchanged image and one that grew, however little: only the second is reported
C19_OnlyGrowthReported ==
    /\ Checked
    /\ bConfig.fail_on_increase
    /\ bConfig.budget_increase_percent = Some(10)
    /\ Len(bComparisons) = 2
    /\ HasBaseline(1) /\ bComparisons[1][2][1].total_delta = 0
    /\ HasBaseline(2) /\ bComparisons[2][2][1].total_delta = 7
    /\ bOut.violations = LinesOfKind("increase")
    /\ Len(bOut.violations) = 1
    /\ bOut.violations[1].index = 2

\* C20: each check reports what it reports when it is the only one configured,
\* whatever the other checks found; a check that is not configured reports
\* nothing; the verdict fails exactly when a violation was reported, so a
\* policy without any field passes every batch
C20_IndependentChecks ==
    Checked =>
        /\ bOut.failed <=> bOut.violations # <<>>
        /\ bOut.exit = (IF bOut.violations # <<>> THEN 1 ELSE 0)
        /\ LinesOfKind("budget") = CheckBudgets(bComparisons, OnlyBudget).violations
        /\ LinesOfKind("percent") = CheckBudgets(bComparisons, OnlyPercent).violations
        /\ LinesOfKind("increase") = CheckBudgets(bComparisons, OnlyIncrease).violations
        /\ Len(bOut.violations) = Len(LinesOfKind("budget")) + Len(LinesOfKind("percent"))
                                    + Len(LinesOfKind("increase"))
        /\ bConfig.budget_bytes = None => LinesOfKind("budget") = <<>>
        /\ bConfig.budget_increase_percent = None => LinesOfKind("percent") = <<>>
        /\ ~bConfig.fail_on_increase => LinesOfKind("increase") = <<>>
        /\ (/\ bConfig.budget_bytes = None
            /\ bConfig.budget_increase_percent = None
            /\ ~bConfig.fail_on_increase) => ~bOut.failed

\* One run reported a violation of each of the three kinds
C20_ThreeViolations ==
    /\ Checked
    /\ LinesOfKind("budget") # <<>>
    /\ LinesOfKind("percent") # <<>>
    /\ LinesOfKind("increase") # <<>>
    /\ bOut.failed

\* C29: dit diff with a base branch and without a pair of commit identifiers
\* compares the newest entry of the image on the base branch (before) with the
\* most recently appended entry of the image (after); when that most recent
\* entry is on the base branch, before and after are that one entry, the diff
\* has total_delta 0 and, its digests being unique, only Unchanged changes,
\* one per layer.
C29_BaseBranchAgainstLatest ==
    (/\ DiffResolved
     /\ qArgs.base_branch # None
     /\ ~(qArgs.commit_a # None /\ qArgs.commit_b # None)
     /\ ImageEntries # <<>>) =>
        LET h == ImageEntries
            latest == h[Len(h)]
            m == BranchMatches(h, qArgs.base_branch[1])
        IN  /\ qOut.status = "ok" <=> m # {}
            /\ qOut.status = "ok" =>
                   /\ qOut.after = Some(latest)
                   /\ qOut.before = Some(h[MaxOf(m)])
            /\ latest.branch = qArgs.base_branch[1] =>
                   /\ qOut.status = "ok"
                   /\ qOut.before = qOut.after
                   /\ qOut.diff[1].total_delta = 0
                   /\ UniqueDigests(latest.layers) =>
                          /\ Len(qOut.diff[1].layer_changes) = Len(latest.layers)
                          /\ \A k \in 1..Len(latest.layers) :
                                 qOut.diff[1].layer_changes[k] = Unchanged(latest.layers[k])

\* C29 witness: the most recent entry of the image is on the base branch, an
\* older entry of that branch exists, and the diff of the entry with itself
\* lists its two layers as unchanged
C29_LatestOnBaseBranch ==
    /\ DiffResolved
    /\ qArgs.base_branch # None
    /\ qArgs.commit_b = None
    /\ Len(ImageEntries) >= 2
    /\ ImageEntries[Len(ImageEntries)].branch = qArgs.base_branch[1]
    /\ ImageEntries[1].branch = qArgs.base_branch[1]
    /\ ImageEntries[1] # ImageEntries[Len(ImageEntries)]
    /\ qOut.before = qOut.after
    /\ Len(qOut.diff[1].layer_changes) = 2

\* The entries of the pre-call history that can serve as baseline of the
\* snapshot run_ci captured: those of its image name, on the base branch if one
\* is configured, whatever their tag
CiCandidates ==
    LET Serves(s) == qArgs.base_branch # None => s.branch = qArgs.base_branch[1]
    IN  SelectSeq(ImageEntries, Serves)

\* C30: baselines are selected by image name only: what dit diff compares and
\* what run_ci takes as baseline are entries of the image name asked for,
\* never of another name, and run_ci takes the newest candidate of that name
\* whatever tag it or the new snapshot carries.
C30_ImageNameOnly ==
    qOut # <<>> =>
        /\ qOut.before # None =>
               /\ qOut.before[1].image = qArgs.image
               /\ \E i \in 1..Len(PriorHistory) : PriorHistory[i] = qOut.before[1]
        /\ qOut.after # None => qOut.after[1].image = qArgs.image
        /\ qArgs.path = "ci" =>
               qOut.before = (IF CiCandidates = <<>> THEN None
                              ELSE Some(CiCandidates[Len(CiCandidates)]))

\* C30 witness: a snapshot captured with tag v2 gets as baseline an entry of
\* its image captured with tag latest, although an entry of another image is
\* newer
C30_BaselineOfOtherTag ==
    /\ CiResolved
    /\ qOut.before # None
    /\ qOut.after[1].tag = Some("v2")
    /\ qOut.before[1].tag = Some("latest")
    /\ PriorHistory[Len(PriorHistory)].image # qArgs.image

(***************************************************************************)
(* The batch commands as a whole: run_ci (ci.rs) and track_all_images      *)
(* (track_all.rs).  Docker, git, the file system and GitHub answer or      *)
(* fail as they please; the commands decide what a failure does to the     *)
(* batch.                                                                  *)
(***************************************************************************)

\* Bound: the images of one batch
MaxImages == 2

\* std::process::exit(1) of run_ci when check_budgets returned true
PolicyExitCode == 1

\* fn main() -> Result<()>: the process ends with 1 when main returns Err
ErrorExitCode == 1

\* An image reference is its parts between colons: "app" or "app:v2"
ImageRefs == {<<"app">>, <<"app", "v2">>, <<"web">>}

ContentSize(ref) ==
    IF ref[1] = "web" THEN 60 ELSE IF Len(ref) > 1 THEN 150 ELSE 140

\* DockerClient::inspect_image: the name is the part before the colon, the tag
\* the part after it or "latest"; the git fields are String::new()
InspectImage(ref) ==
    [ImageSnapshot(ref[1], IF Len(ref) > 1 THEN Some(ref[2]) ELSE Some("latest"), None,
                   <<>>, "", ContentSize(ref), <<>>)
        EXCEPT !.commit_message = "", !.author = ""]

\* get_git_context() when git answers
GitContext ==
    [commit_sha |-> <<"a", "d", "1">>, branch |-> "feature",
     commit_message |-> "msg", author |-> "dev <dev@example.org>"]

\* snapshot.commit_sha = git_ctx.commit_sha; ... = git_ctx.author
ApplyGitContext(snapshot, git_ctx) ==
    [snapshot EXCEPT !.commit_sha = git_ctx.commit_sha,
                     !.branch = git_ctx.branch,
                     !.commit_message = git_ctx.commit_message,
                     !.author = git_ctx.author]

\* How the process ends when the command returns result to main
MainExit(kind, error) ==
    [kind |-> kind, error |-> error, violations |-> <<>>,
     exit |-> IF kind = "err" THEN ErrorExitCode ELSE 0]

\* std::process::exit(1) inside run_ci, after check_budgets printed lines
PolicyExit(lines) ==
    [kind |-> "policy", error |-> "", violations |-> lines, exit |-> PolicyExitCode]

ImageLists == UNION {[1..n -> ImageRefs] : n \in 0..MaxImages}

CiConfigs ==
    [images : ImageLists \ {<<>>},
     base_branch : {None, Some("main")},
     budget_bytes : {None, Some(200)},
     budget_increase_percent : {None, Some(10)},
     fail_on_increase : BOOLEAN,
     github_comment : BOOLEAN]

\* The stores a batch starts from: none, histories of earlier runs, and a
\* file that is not a JSON array
RunStores ==
    {[prior |-> None, file |-> NoFile, dir |-> FALSE]}
    \cup {[prior |-> Some(h), file |-> FileWith(ToStringPretty(h)), dir |-> TRUE] :
             h \in {<<EntryMain1>>, <<EntryMain1, EntryFeature>>, <<EntryWeb, EntryMain2>>}}
    \cup {[prior |-> Some(<<EntryWeb>>),
           file |-> FileWith(SubSeq(ToStringPretty(<<EntryWeb>>), 1, 1)), dir |-> TRUE]}

RunInit ==
    /\ \E st \in RunStores :
          /\ prior = st.prior
          /\ file = st.file
          /\ dirExists = st.dir
    /\ \/ rCmd = "ci" /\ rConfig \in CiConfigs
       \/ rCmd = "track_all" /\ rConfig \in [images : ImageLists]
    /\ rPc = "start"
    /\ rCurrent = <<>>
    /\ rHistory = <<>>
    /\ rComparisons = <<>>
    /\ rLog = <<>>
    /\ rOut = <<>>
    /\ pc = [p \in Procs |-> "off"]
    /\ mode = [p \in Procs |-> "track_all"]
    /\ nsaves = [p \in Procs |-> 0]
    /\ cur = [p \in Procs |-> <<>>]
    /\ snapshots = [p \in Procs |-> <<>>]
    /\ saved = [p \in Procs |-> <<>>]
    /\ lastErr = [p \in Procs |-> "none"]

\* What no batch step touches
RunFrame == UNCHANGED <<prior, pc, mode, nsaves, cur, snapshots, saved, lastErr,
                        rCmd, rConfig>>

\* run_ci: DockerClient::new()?
CiDockerNew ==
    /\ rCmd = "ci" /\ rPc = "start"
    /\ \/ rPc' = "capture" /\ rOut' = rOut
       \/ rPc' = "end" /\ rOut' = MainExit("err", "docker")
    /\ RunFrame
    /\ UNCHANGED <<file, dirExists, rCurrent, rHistory, rComparisons, rLog>>

\* Variant: each image is saved as soon as it is captured
CiCaptureSaves ==
    /\ rCmd = "ci" /\ rPc = "capture"
    /\ Len(rCurrent) < Len(rConfig.images)
    /\ LET image == rConfig.images[Len(rCurrent) + 1]
       IN  \/ /\ rCurrent' = Append(rCurrent, ApplyGitContext(InspectImage(image), GitContext))
              /\ file' = FileWith(ToStringPretty(Append(LoadHistory(file).value,
                                  ApplyGitContext(InspectImage(image), GitContext))))
              /\ dirExists' = TRUE
              /\ UNCHANGED <<rPc, rOut>>
           \/ /\ rPc' = "end"
              /\ rOut' = MainExit("err", "capture")
              /\ UNCHANGED <<rCurrent, file, dirExists>>
    /\ RunFrame
    /\ UNCHANGED <<rHistory, rComparisons, rLog>>

\* run_ci, one round of the capture loop: inspect_image(image).await?, then
\* the git fields if get_git_context() is Ok
CiCapture ==
    /\ rCmd = "ci" /\ rPc = "capture"
    /\ Len(rCurrent) < Len(rConfig.images)
    /\ LET image == rConfig.images[Len(rCurrent) + 1]
       IN  \/ /\ \E git_ok \in BOOLEAN :
                    rCurrent' = Append(rCurrent,
                                       IF git_ok
                                       THEN ApplyGitContext(InspectImage(image), GitContext)
                                       ELSE InspectImage(image))
              /\ UNCHANGED <<rPc, rOut>>
           \/ /\ rPc' = "end"
              /\ rOut' = MainExit("err", "capture")
              /\ rCurrent' = rCurrent
    /\ RunFrame
    /\ UNCHANGED <<file, dirExists, rHistory, rComparisons, rLog>>

\* run_ci: let history = load_history()?
CiLoadHistory ==
    /\ rCmd = "ci" /\ rPc = "capture"
    /\ Len(rCurrent) = Len(rConfig.images)
    /\ IF LoadHistory(file).ok
       THEN /\ rHistory' = LoadHistory(file).value
            /\ rPc' = "compare"
            /\ rOut' = rOut
       ELSE /\ rHistory' = rHistory
            /\ rPc' = "end"
            /\ rOut' = MainExit("err", "corrupt")
    /\ RunFrame
    /\ UNCHANGED <<file, dirExists, rCurrent, rComparisons, rLog>>

\* Variant: each round resolves its baseline against the store as it is now
CiCompareReloads ==
    /\ rCmd = "ci" /\ rPc = "compare"
    /\ Len(rComparisons) < Len(rCurrent)
    /\ LET current == rCurrent[Len(rComparisons) + 1]
           baseline == FindBaselineSnapshot(LoadHistory(file).value, current.image,
                                            rConfig.base_branch)
       IN  /\ rComparisons' =
                  Append(rComparisons,
                         <<current, IF baseline = None THEN None
                                    ELSE Some(CiComputeDiff(baseline[1], current))>>)
           /\ \E o \in SaveSnapshotOutcomes(dirExists, file, current) :
                 /\ file' = o.file
                 /\ dirExists' = o.dir
                 /\ rLog' = Append(rLog, IF o.ok THEN "saved" ELSE "save_failed")
                 /\ IF o.ok THEN UNCHANGED <<rPc, rOut>>
                    ELSE rPc' = "end" /\ rOut' = MainExit("err", "save")
    /\ RunFrame
    /\ UNCHANGED <<rCurrent, rHistory>>

\* run_ci, one round of the comparison loop: the baseline out of history, the
\* comparison pushed, then save_snapshot(current)?
CiCompare ==
    /\ rCmd = "ci" /\ rPc = "compare"
    /\ Len(rComparisons) < Len(rCurrent)
    /\ LET current == rCurrent[Len(rComparisons) + 1]
           baseline == FindBaselineSnapshot(rHistory, current.image, rConfig.base_branch)
       IN  /\ rComparisons' =
                  Append(rComparisons,
                         <<current, IF baseline = None THEN None
                                    ELSE Some(CiComputeDiff(baseline[1], current))>>)
           /\ \E o \in SaveSnapshotOutcomes(dirExists, file, current) :
                 /\ file' = o.file
                 /\ dirExists' = o.dir
                 /\ rLog' = Append(rLog, IF o.ok THEN "saved" ELSE "save_failed")
                 /\ IF o.ok THEN UNCHANGED <<rPc, rOut>>
                    ELSE rPc' = "end" /\ rOut' = MainExit("err", "save")
    /\ RunFrame
    /\ UNCHANGED <<rCurrent, rHistory>>

\* run_ci after the loop: the report printed, the comment posted if asked for,
\* then check_budgets and the end of the process
CiFinish ==
    /\ rCmd = "ci" /\ rPc = "compare"
    /\ Len(rComparisons) = Len(rCurrent)
    /\ rPc' = "end"
    /\ \/ /\ rConfig.github_comment
          /\ rOut' = MainExit("err", "github")
       \/ rOut' = IF CheckBudgets(rComparisons, rConfig).failed
                  THEN PolicyExit(CheckBudgets(rComparisons, rConfig).violations)
                  ELSE MainExit("ok", "")
    /\ RunFrame
    /\ UNCHANGED <<file, dirExists, rCurrent, rHistory, rComparisons, rLog>>

\* track_all_images up to its loop: the Docker client, the list of images,
\* "No images found", then let git_context = get_git_context()?
TrackAllSetup ==
    /\ rCmd = "track_all" /\ rPc = "start"
    /\ \/ rPc' = "end" /\ rOut' = MainExit("err", "docker")
       \/ rConfig.images = <<>> /\ rPc' = "end" /\ rOut' = MainExit("ok", "")
       \/ rConfig.images # <<>> /\ rPc' = "end" /\ rOut' = MainExit("err", "git")
       \/ rConfig.images # <<>> /\ rPc' = "track" /\ rOut' = rOut
    /\ RunFrame
    /\ UNCHANGED <<file, dirExists, rCurrent, rHistory, rComparisons, rLog>>

\* track_all_images, one round of its loop: inspect_image, the git fields,
\* save_snapshot; a failure of either is printed and the loop goes on
TrackAllImage ==
    /\ rCmd = "track_all" /\ rPc = "track"
    /\ Len(rLog) < Len(rConfig.images)
    /\ LET image == rConfig.images[Len(rLog) + 1]
           snapshot == ApplyGitContext(InspectImage(image), GitContext)
       IN  \/ /\ rLog' = Append(rLog, "capture_failed")
              /\ UNCHANGED <<file, dirExists, rCurrent>>
           \/ \E o \in SaveSnapshotOutcomes(dirExists, file, snapshot) :
                 /\ file' = o.file
                 /\ dirExists' = o.dir
                 /\ rCurrent' = Append(rCurrent, snapshot)
                 /\ rLog' = Append(rLog, IF o.ok THEN "saved" ELSE "save_failed")
    /\ RunFrame
    /\ UNCHANGED <<rPc, rOut, rHistory, rComparisons>>

\* track_all_images after its loop: the count printed, Ok(())
TrackAllFinish ==
    /\ rCmd = "track_all" /\ rPc = "track"
    /\ Len(rLog) = Len(rConfig.images)
    /\ rPc' = "end"
    /\ rOut' = MainExit("ok", "")
    /\ RunFrame
    /\ UNCHANGED <<file, dirExists, rCurrent, rHistory, rComparisons, rLog>>

RunNext ==
    \/ CiDockerNew /\ UNCHANGED <<diffVars, resolveVars, budgetVars, publishVars>>
    \/ CiCapture /\ UNCHANGED <<diffVars, resolveVars, budgetVars, publishVars>>
    \/ CiLoadHistory /\ UNCHANGED <<diffVars, resolveVars, budgetVars, publishVars>>
    \/ CiCompare /\ UNCHANGED <<diffVars, resolveVars, budgetVars, publishVars>>
    \/ CiFinish /\ UNCHANGED <<diffVars, resolveVars, budgetVars, publishVars>>
    \/ TrackAllSetup /\ UNCHANGED <<diffVars, resolveVars, budgetVars, publishVars>>
    \/ TrackAllImage /\ UNCHANGED <<diffVars, resolveVars, budgetVars, publishVars>>
    \/ TrackAllFinish /\ UNCHANGED <<diffVars, resolveVars, budgetVars, publishVars>>

InitRun == RunInit /\ DiffIdle /\ ResolveIdle /\ BudgetIdle /\ PublishIdle

SpecRun == InitRun /\ [][RunNext]_vars

(***************************************************************************)
(* Claims about the batch commands                                         *)
(***************************************************************************)

\* run_ci got as far as its comparison loop
CiComparing == rCmd = "ci" /\ rPc \in {"compare", "end"} /\ rHistory = PriorHistory

\* run_ci ended through check_budgets
CiJudged == rCmd = "ci" /\ rOut # <<>> /\ rOut.kind \in {"ok", "policy"}

\* The entries of the pre-batch history that can serve as baseline of the i-th
\* captured snapshot
Candidates(i) ==
    LET Serves(s) ==
            /\ s.image = rCurrent[i].image
            /\ rConfig.base_branch # None => s.branch = rConfig.base_branch[1]
    IN  SelectSeq(PriorHistory, Serves)

\* Every round of the comparison loop so far saved its snapshot
AllSaved == \A j \in 1..Len(rLog) : rLog[j] = "saved"

\* C21: when the history holds no baseline for an image of a CI run, its
\* comparison is (snapshot, None), no percent or fail-on-increase line of the
\* budget gate is about it, and its snapshot is in the store once its round
\* and the later rounds have saved.
C21_FirstRun ==
    CiComparing =>
        \A i \in 1..Len(rComparisons) :
            Candidates(i) = <<>> =>
                /\ rComparisons[i] = <<rCurrent[i], None>>
                /\ AllSaved =>
                       /\ LoadHistory(file).ok
                       /\ Len(LoadHistory(file).value) >= Len(PriorHistory) + i
                       /\ LoadHistory(file).value[Len(PriorHistory) + i] = rCurrent[i]
                /\ CiJudged =>
                       \A k \in 1..Len(rOut.violations) :
                           /\ rOut.violations[k].index # i
                           /\ rOut.violations[k].index = 0 => rOut.violations[k].kind = "budget"

\* C21 witness: a run that failed on the growth of one image while another
\* image had its first run and was appended
C21_FirstRunBesideViolation ==
    /\ CiJudged
    /\ rOut.kind = "policy"
    /\ \E i, j \in 1..Len(rComparisons) :
          /\ Candidates(i) = <<>>
          /\ rComparisons[i][2] = None
          /\ \E k \in 1..Len(rOut.violations) :
                rOut.violations[k].kind = "increase" /\ rOut.violations[k].index = j
          /\ LoadHistory(file).value[Len(PriorHistory) + i] = rCurrent[i]

\* The history a reader of the store gets
StoredHistory == LoadHistory(file).value

\* C22: in a CI run each round of the comparison loop appends its snapshot
\* once, baseline or not; when the budget gate gives its verdict the store is
\* the pre-batch history followed by every captured snapshot, one per image,
\* and it stays so whatever the verdict; a failing verdict ends the process
\* with a non-zero code, a passing one with zero.
C22_AppendThenJudge ==
    /\ CiComparing /\ AllSaved =>
           /\ LoadHistory(file).ok
           /\ StoredHistory = PriorHistory \o SubSeq(rCurrent, 1, Len(rLog))
    /\ CiJudged =>
           /\ AllSaved
           /\ Len(rLog) = Len(rConfig.images)
           /\ Len(rCurrent) = Len(rConfig.images)
           /\ Len(rComparisons) = Len(rConfig.images)
           /\ StoredHistory = PriorHistory \o rCurrent
           /\ rOut.kind = "policy" <=> rOut.violations # <<>>
           /\ rOut.kind = "policy" => rOut.exit # 0
           /\ rOut.kind = "ok" => rOut.exit = 0
           /\ (/\ rConfig.fail_on_increase
               /\ \E i \in 1..Len(rComparisons) :
                     /\ Candidates(i) # <<>>
                     /\ rCurrent[i].total_size
                            > Candidates(i)[Len(Candidates(i))].total_size)
                  => rOut.kind = "policy"
           /\ (/\ rConfig.budget_bytes = None
               /\ rConfig.budget_increase_percent = None
               /\ ~rConfig.fail_on_increase)
                  => rOut.kind = "ok"

\* C22 witness: a failing verdict over two images, one with a baseline and
\* one without, both appended after a history of earlier runs
C22_FailedRunKeepsSnapshots ==
    /\ CiJudged
    /\ rOut.exit # 0
    /\ Len(rComparisons) = 2
    /\ \E i, j \in 1..2 : rComparisons[i][2] = None /\ rComparisons[j][2] # None
    /\ PriorHistory # <<>>
    /\ StoredHistory = PriorHistory \o rCurrent

\* C23: the failure to capture one image is not fatal to a batch: no batch
\* command ends with the capture failure as its error, and a batch that ended
\* has gone through every image, each one either skipped or captured.
C23_CaptureFailureNotFatal ==
    rOut # <<>> /\ rOut.error \notin {"docker", "git", "corrupt", "save", "github"} =>
        /\ rOut.error # "capture"
        /\ rCmd = "track_all" =>
               /\ Len(rLog) = Len(rConfig.images)
               /\ Len(rCurrent) = Cardinality({i \in 1..Len(rLog) : rLog[i] # "capture_failed"})
        /\ rCmd = "ci" => Len(rComparisons) = Len(rCurrent)

\* The git fields of a snapshot are blank
BlankGit(s) ==
    s.commit_sha = <<>> /\ s.branch = "" /\ s.commit_message = "" /\ s.author = ""

\* C24: a failure to get the git context never ends a batch: no batch
\* command ends with it as its error, and every snapshot a batch captured has
\* either all four git fields of the context or all four blank.
C24_GitFailureNotFatal ==
    /\ rOut # <<>> => rOut.error # "git"
    /\ \A i \in 1..Len(rCurrent) :
          \/ BlankGit(rCurrent[i])
          \/ rCurrent[i] = ApplyGitContext(rCurrent[i], GitContext)

\* C25: a policy violation is not an error of the command; the process then
\* ends with a non-zero code, and no genuine failure (Docker or GitHub
\* unavailable, store corrupt, save failed) ends it with that code.
C25_PolicySignalDistinct ==
    rOut # <<>> =>
        /\ rOut.kind = "policy" => rOut.error = "" /\ rOut.exit # 0
        /\ rOut.kind = "err" => rOut.exit # PolicyExitCode

\* The baseline the i-th comparison was made against, None on a first run
BaselineOf(i) ==
    IF rComparisons[i][2] = None THEN None ELSE Some(rComparisons[i][2][1].before)

\* C27: every baseline of a CI run comes out of the history as it was before
\* the batch appended anything: it is the newest pre-batch candidate, or None
\* when there is none, never a snapshot of this batch; two snapshots of the
\* same image get the same baseline, and both are appended.
C27_PreBatchBaseline ==
    CiComparing =>
        \A i \in 1..Len(rComparisons) :
            /\ BaselineOf(i) = (IF Candidates(i) = <<>> THEN None
                                ELSE Some(Candidates(i)[Len(Candidates(i))]))
            /\ \A j \in 1..Len(rCurrent) : BaselineOf(i) # Some(rCurrent[j])
            /\ \A j \in 1..Len(rComparisons) :
                  rCurrent[i].image = rCurrent[j].image =>
                      /\ BaselineOf(i) = BaselineOf(j)
                      /\ AllSaved =>
                             /\ StoredHistory[Len(PriorHistory) + i] = rCurrent[i]
                             /\ StoredHistory[Len(PriorHistory) + j] = rCurrent[j]

\* C27 witness: the same image twice in a batch, the second compared with the
\* pre-batch entry although the first is already in the store
C27_SameImageTwice ==
    /\ CiJudged
    /\ Len(rComparisons) = 2
    /\ rCurrent[1].image = rCurrent[2].image
    /\ BaselineOf(2) # None
    /\ BaselineOf(2) = BaselineOf(1)
    /\ StoredHistory = PriorHistory \o rCurrent

\* The store the batch started from
InitialStore == CHOOSE st \in RunStores : st.prior = prior

StoreUntouched == file = InitialStore.file /\ dirExists = InitialStore.dir

\* C28: a CI run captures every image before it appends any: while it
\* captures the store is as the batch found it, the store changes only once
\* every image is captured, and a run that ends on a failed capture ends with
\* an error and the store as the batch found it.
C28_CaptureBeforeAppend ==
    rCmd = "ci" =>
        /\ rPc \in {"start", "capture"} => StoreUntouched /\ rLog = <<>>
        /\ ~StoreUntouched \/ rLog # <<>> => Len(rCurrent) = Len(rConfig.images)
        /\ rOut # <<>> /\ rOut.error = "capture" =>
               /\ rOut.kind = "err"
               /\ rOut.exit # 0
               /\ Len(rCurrent) < Len(rConfig.images)
               /\ rComparisons = <<>>
               /\ StoreUntouched

\* C28 witness: the second capture of a batch failed after the first had
\* succeeded, over a store with a history
C28_SecondCaptureFailed ==
    /\ rCmd = "ci"
    /\ rOut # <<>>
    /\ rOut.error = "capture"
    /\ Len(rCurrent) = 1
    /\ PriorHistory # <<>>
    /\ StoredHistory = PriorHistory

(***************************************************************************)
(* The pull-request comment: GitHubClient::post_or_update_pr_comment       *)
(* (github.rs) against the comments of one pull request.  A comment body   *)
(* is its sequence of lines; a comment's id is its position, GitHub lists  *)
(* comments oldest first.                                                  *)
(***************************************************************************)

\* Bound: comments other people leave on the pull request
MaxOthers == 31

\* Bound: calls of post_or_update_pr_comment
MaxCalls == 2

\* GET /repos/{repo}/issues/{n}/comments without per_page or page: GitHub
\* answers with the first page, 30 comments
PageSize == 30

DIT_MARKER == "<!-- dit-report -->"

Reports == {"report 1", "report 2"}

\* format!("{}\n{}", DIT_MARKER, body)
MarkedBody(body) == <<DIT_MARKER, body>>

\* c.body.contains(DIT_MARKER)
ContainsMarker(body) == \E i \in 1..Len(body) : body[i] = DIT_MARKER

\* The comments the list request answers with
ListComments(comments) ==
    SubSeq(comments, 1, IF Len(comments) < PageSize THEN Len(comments) ELSE PageSize)

\* find_existing_comment: the id of the first listed comment with the marker
FindExistingComment(comments) ==
    LET listed == ListComments(comments)
        marked == {i \in 1..Len(listed) : ContainsMarker(listed[i])}
    IN  IF marked = {} THEN None
        ELSE Some(CHOOSE i \in marked : \A j \in marked : i <= j)

PublishInit ==
    /\ gComments = <<>>
    /\ gCalls = <<>>
    /\ gFailed = 0

\* Somebody else comments on the pull request
OtherComment ==
    /\ Cardinality({i \in 1..Len(gComments) : ~ContainsMarker(gComments[i])}) < MaxOthers
    /\ gComments' = Append(gComments, <<"looks good">>)
    /\ UNCHANGED <<gCalls, gFailed>>

\* post_or_update_pr_comment(pr_number, body): the list request, then PATCH
\* of the comment found or POST of a new one; each request succeeds or fails
PostOrUpdatePrComment ==
    /\ Len(gCalls) + gFailed < MaxCalls
    /\ \E body \in Reports :
          \/ /\ gFailed' = gFailed + 1
             /\ UNCHANGED <<gComments, gCalls>>
          \/ /\ gCalls' = Append(gCalls, body)
             /\ gFailed' = gFailed
             /\ gComments' =
                    IF FindExistingComment(gComments) # None
                    THEN [gComments EXCEPT ![FindExistingComment(gComments)[1]] =
                                               MarkedBody(body)]
                    ELSE Append(gComments, MarkedBody(body))

PublishNext ==
    \/ OtherComment /\ UNCHANGED <<storeVars, diffVars, resolveVars, budgetVars, runVars>>
    \/ PostOrUpdatePrComment /\ UNCHANGED <<storeVars, diffVars, resolveVars, budgetVars, runVars>>

InitPublish == PublishInit /\ StoreIdle /\ DiffIdle /\ ResolveIdle /\ BudgetIdle /\ RunIdle

SpecPublish == InitPublish /\ [][PublishNext]_vars

\* The comments of the pull request that carry the marker
MarkedComments == {i \in 1..Len(gComments) : ContainsMarker(gComments[i])}

\* C26: after any number of successful calls, and whatever others commented,
\* exactly one comment of the pull request carries the marker and its body is
\* the marker followed by the report of the latest call.
C26_OneMarkedComment ==
    gCalls # <<>> =>
        /\ Cardinality(MarkedComments) = 1
        /\ \A i \in MarkedComments : gComments[i] = MarkedBody(gCalls[Len(gCalls)])

====
